---- MODULE Spec2Model ----
(***************************************************************************)
(* Model of the solar-advisor resolution pipeline of ymorsi7/solar-flair:  *)
(*   lib/geo.ts      geocode, melissaValidation, openStreetMapGeocode      *)
(*   lib/solar.ts    getSolar, solarInsights, pvWatts (enhanced version)   *)
(*   lib/vision.ts   roofVision                                            *)
(*   lib/memory.ts   saveMemory, getMemory, updateMemory, periodic sweep   *)
(*   tools/solarAssessment.ts   solarAssessment.handler, solarProposal     *)
(*                                                                         *)
(* JavaScript values that may be a number, NaN or undefined are tagged     *)
(* records; confidences are integers in hundredths (0.95 is 95).           *)
(***************************************************************************)
EXTENDS Integers, Sequences, FiniteSets, TLC

VARIABLES
  pc,           \* position of the one assessment request being processed
  address,      \* request parameter `address`
  googleKey,    \* process.env.GOOGLE_SOLAR_KEY is set
  nrelKey,      \* process.env.NREL_KEY is set
  attempts,     \* melissaValidation: local `attempts`
  melissa,      \* geocode: local `melissaResult`
  geo,          \* handler: local `geo`
  primary,      \* getSolar: local `primary`
  secondary,    \* getSolar: local `secondary`
  solar,        \* handler: local `solar`
  vision,       \* handler: local `vision`
  result,       \* value the handler's promise resolved with
  error,        \* message the handler's promise rejected with
  calls,        \* log of the function calls and network requests issued
  responses,    \* history: the answer each provider gave to this request
  proposal,     \* outcome of the last solarProposal request
  memoryStore,  \* memory.ts: memoryStore
  now,          \* Date.now()
  ticks,        \* number of clock advances so far
  upd,          \* the in-flight updateMemory calls
  ret,          \* return value of the cache operation that ran last
  lastSaved,    \* history: arguments of the last saveMemory call per key
  firstExpiry,  \* history: expiry fixed by the last caller-issued saveMemory
  applied,      \* history: update functions written since that saveMemory
  resolver,     \* repeated resolution: the function called, geocode or getSolar
  runs,         \* repeated resolution: input, path and outcome of each call
  seasonAnnual, \* seasonal model: the annual figure given (kWh)
  seasonLatitude,   \* seasonal model: the latitude given
  monthlySeries,    \* seasonal model: the series built and the code that built it
  rawData,      \* normalizer: the object JSON.parse returned
  normalized,   \* normalizer: analysisData / recommendationData built from it
  text,         \* unwrapping: the text of the model's reply
  unwrapped,    \* unwrapping: outcome of extracting and parsing the JSON
  svcPc,        \* analyze-property: position of the request
  svcAddress,   \* analyze-property: input `address`
  geocoded,     \* analyze-property: history, what geocodeAddress returned
  svcCalls,     \* analyze-property: network requests issued
  svcResponse,  \* analyze-property: `data` of the value the handler returned
  svcUi,        \* analyze-property: the alert of its `ui` and the note ending its `text`
  svcReplies,   \* analyze-property: history, the answer to each request of svcCalls
  convClient,   \* DAIN agent: the conversationState the client holds
  agentLog,     \* DAIN agent: message, answer and state handed back, per request
  prose,        \* text extraction: the prose of the model's reply
  extracted     \* text extraction: the recommendations built from it

pipeVars == <<pc, address, googleKey, nrelKey, attempts, melissa, geo, primary,
              secondary, solar, vision, result, error, calls, responses>>
cacheVars == <<memoryStore, now, ticks, upd, ret, lastSaved, firstExpiry, applied>>
twiceVars == <<resolver, runs>>
seasonVars == <<seasonAnnual, seasonLatitude, monthlySeries>>
normVars == <<rawData, normalized>>
unwrapVars == <<text, unwrapped>>
svcVars == <<svcPc, svcAddress, geocoded, svcCalls, svcResponse, svcUi, svcReplies>>
agentVars == <<convClient, agentLog>>
extractVars == <<prose, extracted>>
extVars == <<twiceVars, seasonVars, normVars, unwrapVars, svcVars, agentVars, extractVars>>
vars == <<pipeVars, proposal, cacheVars, extVars>>

(***************************************************************************)
(* JavaScript values                                                       *)
(***************************************************************************)
Null == [t |-> "null"]
Undefined == [t |-> "undefined"]
NaN == [t |-> "NaN"]
Num(n) == [t |-> "num", v |-> n]

IsNumber(x) == x.t = "num"

\* x * n for a JavaScript value x and a number n
JsTimes(x, n) == IF IsNumber(x) THEN Num(x.v * n) ELSE NaN

\* x / n, for the exact divisions the model needs
JsDiv(x, n) == IF IsNumber(x) THEN Num(x.v \div n) ELSE NaN

\* a - b
JsMinus(a, b) == IF IsNumber(a) /\ IsNumber(b) THEN Num(a.v - b.v) ELSE NaN

Min2(a, b) == IF a <= b THEN a ELSE b
Max2(a, b) == IF a >= b THEN a ELSE b
Abs(a) == IF a < 0 THEN -a ELSE a

(***************************************************************************)
(* Inputs: the request, the environment and the providers' answers         *)
(***************************************************************************)
Addresses == {"", "123 Main St, San Francisco, CA"}
Digits(a, b) == [t |-> "str", digits |-> <<a, b>>]

\* Melissa: a fetch attempt either throws or is answered
MelissaRecords ==
  { [AddressLine1 |-> "123 MAIN ST", Latitude |-> Digits(3, 5), AE01 |-> FALSE],
    [AddressLine1 |-> "123 MAIN ST", Latitude |-> Undefined,    AE01 |-> FALSE],
    [AddressLine1 |-> "123 MAIN ST", Latitude |-> Digits(4, 5), AE01 |-> TRUE],
    [AddressLine1 |-> "",            Latitude |-> Undefined,    AE01 |-> FALSE] }
MelissaResponses ==
  { [kind |-> "throw"], [kind |-> "non_json"], [kind |-> "bad_json"],
    [kind |-> "json", Records |-> <<>>] }
  \cup { [kind |-> "json", Records |-> <<r>>] : r \in MelissaRecords }

\* OpenStreetMap (Nominatim)
OsmResponses ==
  { [kind |-> "throw"], [kind |-> "json", data |-> <<>>] }
  \cup { [kind |-> "json",
          data |-> <<[lat |-> Digits(d, 5), display_name |-> "123 Main Street, SF"]>>]
         : d \in {2, 3, 4} }

\* Google Solar API
SolarPotentials ==
  { [whYearly |-> Num(9000000), maxArrayPanelsCount |-> Num(20),
     panelCapacityWatts |-> Num(400), optimalTiltDegrees |-> Num(20)],
    [whYearly |-> Undefined, maxArrayPanelsCount |-> Undefined,
     panelCapacityWatts |-> Undefined, optimalTiltDegrees |-> Undefined] }
GoogleResponses ==
  { [kind |-> "throw"], [kind |-> "not_ok"], [kind |-> "bad_json"],
    [kind |-> "json", solarPotential |-> Undefined] }
  \cup { [kind |-> "json", solarPotential |-> p] : p \in SolarPotentials }

\* NREL PVWatts
NrelResponses ==
  { [kind |-> "throw"], [kind |-> "not_ok"], [kind |-> "bad_json"],
    [kind |-> "json", outputs |-> Undefined],
    [kind |-> "json", outputs |-> [ac_annual |-> Undefined]],
    [kind |-> "json", outputs |-> [ac_annual |-> Num(7200)]] }

\* Gemini vision on the roof image
VisionResponses ==
  { [kind |-> "read_fail"], [kind |-> "model_fail"], [kind |-> "bad_json"],
    [kind |-> "json", usableAreaM2 |-> 60, shadePct |-> 10],
    [kind |-> "json", usableAreaM2 |-> 40, shadePct |-> 30] }

AssessmentIds == {"assessment-1", "assessment-2"}

(***************************************************************************)
(* lib/geo.ts                                                              *)
(***************************************************************************)
\* parseFloat of a string of two decimal digits
ParseFloat(s) == IF s.t = "str" THEN Num(10 * s.digits[1] + s.digits[2]) ELSE NaN

UnverifiedMelissa == [standardizedAddress |-> Null, verified |-> FALSE, coordinates |-> Null]

\* melissaValidation, from the response of the fetch that did not throw
melissaParse(resp) ==
  IF resp.kind # "json" \/ resp.Records = <<>>
  THEN UnverifiedMelissa
  ELSE LET rec == resp.Records[1]
           standardizedAddress ==
             IF rec.AddressLine1 # "" THEN [t |-> "str", s |-> rec.AddressLine1] ELSE Null
           coordinates ==
             IF rec.Latitude # Undefined THEN [lat |-> ParseFloat(rec.Latitude)] ELSE Null
       IN [standardizedAddress |-> standardizedAddress,
           verified |-> (standardizedAddress # Null /\ ~rec.AE01),
           coordinates |-> coordinates]

MaxAttempts == 3

ConfMelissa == 95
ConfMelissaOsm == 90
ConfOsmOnly == 70

\* getElevation: Math.round(100 + Math.random() * 900) lies in 100..1000; the
\* two ends stand for the values the random draw can give
Elevations == {100, 1000}

\* geocode: the GeoOut built from Melissa's coordinates
geoFromMelissa(m, addr, elev) ==
  [lat |-> m.coordinates.lat,
   std |-> IF m.standardizedAddress # Null THEN m.standardizedAddress.s ELSE addr,
   melissaVerified |-> TRUE,
   confidence |-> ConfMelissa,
   elevation |-> elev]

\* mutant of geoFromOsm: the two confidences are attached to the wrong branches
geoFromOsmSwapped(m, r, elev) ==
  LET c == r.data[1] IN
  IF m.verified
  THEN [lat |-> ParseFloat(c.lat),
        std |-> IF m.standardizedAddress # Null THEN m.standardizedAddress.s
                ELSE c.display_name,
        melissaVerified |-> TRUE,
        confidence |-> ConfOsmOnly,
        elevation |-> elev]
  ELSE [lat |-> ParseFloat(c.lat),
        std |-> c.display_name,
        melissaVerified |-> FALSE,
        confidence |-> ConfMelissaOsm,
        elevation |-> elev]

\* geocode: the GeoOut built from OpenStreetMap's first match
geoFromOsm(m, r, elev) ==
  LET c == r.data[1] IN
  IF m.verified
  THEN [lat |-> ParseFloat(c.lat),
        std |-> IF m.standardizedAddress # Null THEN m.standardizedAddress.s
                ELSE c.display_name,
        melissaVerified |-> TRUE,
        confidence |-> ConfMelissaOsm,
        elevation |-> elev]
  ELSE [lat |-> ParseFloat(c.lat),
        std |-> c.display_name,
        melissaVerified |-> FALSE,
        confidence |-> ConfOsmOnly,
        elevation |-> elev]

osmFound(r) == r.kind = "json" /\ r.data # <<>>

(***************************************************************************)
(* lib/solar.ts (enhanced version)                                         *)
(***************************************************************************)
ConfGoogle == 95
ConfNrel == 85
ConfEstimated == 60
VerifiedBonus == 5
BaseProduction == 1400
SystemSizeKw == 5
PanelWatts == 350

\* Math.round(lat * 0.76)
optimalTilt(lat) == (lat * 76 + 50) \div 100

\* Math.ceil(kw * 1000 / 350)
panelCountFor(kw) == (kw * 1000 + PanelWatts - 1) \div PanelWatts

createEstimatedSolarData(g) ==
  LET latitudeAdjustment == Max2(0, 50 - Abs(g.lat.v)) * 30
      productionPerKw == BaseProduction + latitudeAdjustment
  IN [annualKwh |-> Num(productionPerKw * SystemSizeKw),
      roofTiltDeg |-> Num(optimalTilt(g.lat.v)),
      panelCapacityKw |-> Num(SystemSizeKw),
      panelCount |-> Num(panelCountFor(SystemSizeKw)),
      confidence |-> ConfEstimated]

\* solarInsights: the value it resolves with, given the fetch's outcome
\* ("no_key" when GOOGLE_SOLAR_KEY is unset and no request is made)
solarInsights(g, resp) ==
  IF resp.kind # "json" THEN Null
  ELSE IF resp.solarPotential = Undefined THEN Null
  ELSE LET pot == resp.solarPotential IN
       [annualKwh |-> JsDiv(pot.whYearly, 1000),
        roofTiltDeg |-> pot.optimalTiltDegrees,
        panelCapacityKw |->
          IF IsNumber(pot.maxArrayPanelsCount) /\ IsNumber(pot.panelCapacityWatts)
          THEN Num((pot.maxArrayPanelsCount.v * pot.panelCapacityWatts.v) \div 1000)
          ELSE NaN,
        panelCount |-> pot.maxArrayPanelsCount,
        confidence |-> ConfGoogle]

\* pvWatts: the value it resolves with, given the fetch's outcome; every
\* early return and the catch block build the estimate, and a body whose
\* `outputs` is present is used as it is
pvWatts(g, resp) ==
  IF resp.kind # "json" THEN createEstimatedSolarData(g)
  ELSE IF resp.outputs = Undefined THEN createEstimatedSolarData(g)
  ELSE [annualKwh |-> resp.outputs.ac_annual,
        roofTiltDeg |-> Num(optimalTilt(g.lat.v)),
        panelCapacityKw |-> Num(SystemSizeKw),
        panelCount |-> Num(panelCountFor(SystemSizeKw)),
        confidence |-> ConfNrel]

\* does pvWatts fall back to createEstimatedSolarData on this outcome
pvWattsEstimates(resp) ==
  resp.kind # "json" \/ resp.outputs = Undefined

\* mutant of enrichSolarData: a bonus of 0.1 and no Math.min(1, ...)
enrichSolarDataNoCap(data, g) ==
  IF g.melissaVerified
  THEN [data EXCEPT !.confidence = data.confidence + 2 * VerifiedBonus]
  ELSE data

enrichSolarData(data, g) ==
  IF g.melissaVerified
  THEN [data EXCEPT !.confidence = Min2(100, data.confidence + VerifiedBonus)]
  ELSE data

(***************************************************************************)
(* lib/utility, lib/incentives, lib/financials, lib/vision (amounts in     *)
(* cents, rates in cents per kWh, payback in tenths of a year)             *)
(***************************************************************************)
\* the state getIncentives reads from the address with /[A-Z]{2}/
stateOf(std) ==
  CASE std = "123 Main St, San Francisco, CA" -> "CA"
    [] std = "123 MAIN ST" -> "MA"
    [] std = "123 Main Street, SF" -> "SF"
    [] OTHER -> ""

\* getUtilityRates: no sample address carries "ST 12345", so the national
\* average applies
NationalAverageRate == 16
getUtilityRates(g) == [provider |-> "Local Utility", rate |-> NationalAverageRate]

CentsPerKw == 295000

getIncentives(std, systemSize) ==
  IF ~IsNumber(systemSize) THEN [totalValue |-> NaN]
  ELSE
  LET kw == systemSize.v
      state == stateOf(std)
      federalTaxCredit == (kw * CentsPerKw * 3) \div 10
      stateTaxCredit == IF state = "NY" THEN Min2(500000, (kw * CentsPerKw) \div 4) ELSE 0
      utilityRebate == CASE state = "CA" -> kw * 10000
                         [] state = "NY" -> kw * 35000
                         [] OTHER -> kw * 5000
      otherIncentives == IF state = "CA" THEN 50000 ELSE 0
  IN [totalValue |-> Num(federalTaxCredit + stateTaxCredit + utilityRebate + otherIncentives)]

\* (a / b).toFixed(1), in tenths
tenths(a, b) == (20 * a + b) \div (2 * b)

calculateFinancials(systemSize, annualProduction, utilityRate, incentives) ==
  LET systemCost == JsTimes(systemSize, CentsPerKw)
      incentivesValue == IF IsNumber(incentives) /\ incentives.v # 0 THEN incentives
                         ELSE JsDiv(JsTimes(systemCost, 3), 10)
      netCost == JsMinus(systemCost, incentivesValue)
      annualSavings == JsTimes(annualProduction, utilityRate)
  IN [systemCost |-> systemCost,
      incentives |-> incentivesValue,
      netCost |-> netCost,
      annualSavings |-> annualSavings,
      paybackYears |-> IF IsNumber(netCost) /\ IsNumber(annualSavings) /\ annualSavings.v > 0
                       THEN Num(tenths(netCost.v, annualSavings.v)) ELSE NaN]

\* roofVision resolves only when the file was read, the model answered and
\* its text parsed as JSON
roofVisionOk(resp) == resp.kind = "json"
roofVision(resp) == [usableAreaM2 |-> resp.usableAreaM2, shadePct |-> resp.shadePct]

\* the record solarAssessment.handler returns
assessmentRecord(g, sol, vis, fin, util) ==
  [std |-> g.std,
   lat |-> g.lat,
   melissaVerified |-> g.melissaVerified,
   annualKwh |-> sol.annualKwh,
   recommendedSystemSize |-> sol.panelCapacityKw,
   bestTilt |-> IF IsNumber(sol.roofTiltDeg) /\ sol.roofTiltDeg.v # 0
                THEN sol.roofTiltDeg ELSE Num(20),
   bestMaterial |-> IF vis.shadePct < 20 THEN "Monocrystalline" ELSE "Half-cut PERC",
   roofDetails |-> vis,
   financials |-> fin,
   utility |-> util]

(***************************************************************************)
(* lib/memory.ts                                                           *)
(***************************************************************************)
Keys == AssessmentIds
Absent == [t |-> "absent"]
MsPerSecond == 1000

\* JavaScript truthiness of a number or undefined
Truthy(x) == IsNumber(x) /\ x.v # 0

\* the entry saveMemory writes
newEntry(data, ttl, t) ==
  [data |-> data,
   timestamp |-> t,
   expiry |-> IF Truthy(ttl) THEN Num(t + ttl.v * MsPerSecond) ELSE Null]

saveMemory(store, key, data, ttl, t) == [store EXCEPT ![key] = newEntry(data, ttl, t)]

\* entry.expiry && now > entry.expiry
expired(entry, t) == entry.expiry # Null /\ Truthy(entry.expiry) /\ t > entry.expiry.v

\* mutant of getMemory: expiry is left to the periodic sweep
getMemoryNoExpiryCheck(store, key, t) ==
  IF store[key] = Absent THEN Null ELSE store[key].data

\* getMemory: the value returned
getMemory(store, key, t) ==
  IF store[key] = Absent THEN Null
  ELSE IF expired(store[key], t) THEN Null
  ELSE store[key].data

\* getMemory: the store it leaves (an expired entry is deleted)
getMemoryStore(store, key, t) ==
  IF store[key] # Absent /\ expired(store[key], t)
  THEN [store EXCEPT ![key] = Absent]
  ELSE store

\* mutant of sweep: an entry is deleted at the instant of its expiry
sweepAtExpiry(store, t) ==
  [k \in DOMAIN store |->
     IF store[k] # Absent /\ store[k].expiry # Null /\ Truthy(store[k].expiry)
        /\ t >= store[k].expiry.v
     THEN Absent ELSE store[k]]

\* the setInterval callback: delete every expired entry
sweep(store, t) ==
  [k \in DOMAIN store |->
     IF store[k] # Absent /\ expired(store[k], t) THEN Absent ELSE store[k]]

(***************************************************************************)
(* tools/solarAssessment.ts: solarAssessment.handler, one step per awaited *)
(* call; the provider's answer is chosen when the call is made             *)
(***************************************************************************)
NoProposal == [outcome |-> "none"]
NoResponses == [melissa |-> Null, osm |-> Null, google |-> Null, nrel |-> Null, vision |-> Null]
NoKey == [kind |-> "no_key"]

\* handler entry up to the first request of melissaValidation
HandlerStart ==
  /\ pc = "start"
  /\ pc' = "melissa"
  /\ attempts' = 0
  /\ calls' = calls \o <<"geocode", "melissaValidation">>
  /\ UNCHANGED <<responses, address, googleKey, nrelKey, melissa, geo, primary, secondary,
                 solar, vision, result, error, proposal, cacheVars, extVars>>

\* geocode after melissaValidation returned m: Melissa's coordinates are
\* used when it verified the address and gave them, else OpenStreetMap is asked
afterMelissa(m) ==
  IF m.verified /\ m.coordinates # Null
  THEN /\ \E elev \in Elevations : geo' = geoFromMelissa(m, address, elev)
       /\ pc' = "utility"
  ELSE /\ geo' = geo
       /\ pc' = "osm"

\* mutant of MelissaFetch: the loop gives up one failed attempt too late
MelissaFetchOffByOne(resp) ==
  /\ pc = "melissa"
  /\ calls' = Append(calls, "fetch:melissa")
  /\ IF resp.kind = "throw"
     THEN /\ attempts' = attempts + 1
          /\ IF attempts + 1 > MaxAttempts
             THEN /\ melissa' = UnverifiedMelissa
                  /\ afterMelissa(UnverifiedMelissa)
             ELSE UNCHANGED <<melissa, geo, pc>>
     ELSE /\ attempts' = attempts
          /\ melissa' = melissaParse(resp)
          /\ afterMelissa(melissaParse(resp))
  /\ responses' = [responses EXCEPT !.melissa = resp]
  /\ UNCHANGED <<address, googleKey, nrelKey, primary, secondary, solar, vision,
                 result, error, proposal, cacheVars, extVars>>

\* one fetch of the retry loop of melissaValidation, and what follows it
MelissaFetch(resp) ==
  /\ pc = "melissa"
  /\ calls' = Append(calls, "fetch:melissa")
  /\ IF resp.kind = "throw"
     THEN /\ attempts' = attempts + 1
          /\ IF attempts + 1 >= MaxAttempts
             THEN /\ melissa' = UnverifiedMelissa
                  /\ afterMelissa(UnverifiedMelissa)
             ELSE UNCHANGED <<melissa, geo, pc>>
     ELSE /\ attempts' = attempts
          /\ melissa' = melissaParse(resp)
          /\ afterMelissa(melissaParse(resp))
  /\ responses' = [responses EXCEPT !.melissa = resp]
  /\ UNCHANGED <<address, googleKey, nrelKey, primary, secondary, solar, vision,
                 result, error, proposal, cacheVars, extVars>>

\* mutant of afterOsm: the handler's catch swallows the geocoding error
afterOsmSwallow(resp) == "utility"

\* handler: where it goes once geocode has settled after OpenStreetMap's answer
afterOsm(resp) == IF osmFound(resp) THEN "utility" ELSE "failed"

\* openStreetMapGeocode; its failure is rethrown by geocode and by the handler
OsmGeocode(resp) ==
  /\ pc = "osm"
  /\ calls' = calls \o <<"openStreetMapGeocode", "fetch:nominatim">>
  /\ IF osmFound(resp)
     THEN /\ \E elev \in Elevations : geo' = geoFromOsm(melissa, resp, elev)
          /\ error' = error
     ELSE /\ geo' = geo
          /\ error' = "Unable to validate address"
  /\ pc' = afterOsm(resp)
  /\ responses' = [responses EXCEPT !.osm = resp]
  /\ UNCHANGED <<address, googleKey, nrelKey, attempts, melissa, primary, secondary,
                 solar, vision, result, proposal, cacheVars, extVars>>

UtilityRates ==
  /\ pc = "utility"
  /\ calls' = Append(calls, "getUtilityRates")
  /\ pc' = "solar_insights"
  /\ UNCHANGED <<responses, address, googleKey, nrelKey, attempts, melissa, geo, primary,
                 secondary, solar, vision, result, error, proposal, cacheVars, extVars>>

\* mutant of getSolarNext: pvWatts is called whatever solarInsights returned
getSolarNextAlwaysBackup(prim) == "solar_pvwatts"

\* getSolar: where it goes once solarInsights has resolved with prim
getSolarNext(prim) == IF prim # Null THEN "roof" ELSE "solar_pvwatts"

\* getSolar, first half: solarInsights
SolarInsights(resp) ==
  /\ pc = "solar_insights"
  /\ resp.kind = "no_key" <=> ~googleKey
  /\ calls' = calls \o <<"solarInsights">>
                    \o (IF googleKey THEN <<"fetch:google-solar">> ELSE <<>>)
  /\ primary' = solarInsights(geo, resp)
  /\ pc' = getSolarNext(primary')
  /\ solar' = IF pc' = "roof" THEN enrichSolarData(primary', geo) ELSE solar
  /\ responses' = [responses EXCEPT !.google = resp]
  /\ UNCHANGED <<address, googleKey, nrelKey, attempts, melissa, geo, secondary,
                 vision, result, error, proposal, cacheVars, extVars>>

\* getSolar, second half: pvWatts, which itself falls back to the estimate
PvWatts(resp) ==
  /\ pc = "solar_pvwatts"
  /\ resp.kind = "no_key" <=> ~nrelKey
  /\ calls' = calls \o <<"pvWatts">>
                    \o (IF nrelKey THEN <<"fetch:nrel">> ELSE <<>>)
                    \o (IF pvWattsEstimates(resp) THEN <<"createEstimatedSolarData">>
                        ELSE <<>>)
  /\ secondary' = pvWatts(geo, resp)
  /\ solar' = enrichSolarData(secondary', geo)
  /\ pc' = "roof"
  /\ responses' = [responses EXCEPT !.nrel = resp]
  /\ UNCHANGED <<address, googleKey, nrelKey, attempts, melissa, geo, primary,
                 vision, result, error, proposal, cacheVars, extVars>>

\* handler: where it goes once roofVision has settled
afterRoofVision(resp) == IF roofVisionOk(resp) THEN "incentives" ELSE "failed"

RoofVision(resp) ==
  /\ pc = "roof"
  /\ calls' = calls \o <<"roofVision">>
                    \o (IF resp.kind # "read_fail" THEN <<"fetch:gemini">> ELSE <<>>)
  /\ pc' = afterRoofVision(resp)
  /\ IF roofVisionOk(resp)
     THEN /\ vision' = roofVision(resp)
          /\ error' = error
     ELSE /\ vision' = vision
          /\ error' = "roofVision rejected"
  /\ responses' = [responses EXCEPT !.vision = resp]
  /\ UNCHANGED <<address, googleKey, nrelKey, attempts, melissa, geo, primary,
                 secondary, solar, result, proposal, cacheVars, extVars>>

Incentives ==
  /\ pc = "incentives"
  /\ calls' = Append(calls, "getIncentives")
  /\ pc' = "derive"
  /\ UNCHANGED <<responses, address, googleKey, nrelKey, attempts, melissa, geo, primary,
                 secondary, solar, vision, result, error, proposal, cacheVars, extVars>>

\* calculateFinancials, the environmental figures and the returned record
Derive ==
  /\ pc = "derive"
  /\ calls' = Append(calls, "calculateFinancials")
  /\ LET util == getUtilityRates(geo)
         inc == getIncentives(geo.std, solar.panelCapacityKw)
         fin == calculateFinancials(solar.panelCapacityKw, solar.annualKwh,
                                    util.rate, inc.totalValue)
     IN result' = assessmentRecord(geo, solar, vision, fin, util)
  /\ pc' = "done"
  /\ UNCHANGED <<responses, address, googleKey, nrelKey, attempts, melissa, geo, primary,
                 secondary, solar, vision, error, proposal, cacheVars, extVars>>

\* solarProposal.handler / solarInstaller.handler called with an assessmentId
\* once the assessment request has settled
SolarProposal(id) ==
  /\ pc \in {"done", "failed"}
  /\ proposal' = [outcome |-> IF getMemory(memoryStore, id, now) = Null
                              THEN "Assessment data not found" ELSE "ok",
                  assessmentId |-> id]
  /\ memoryStore' = getMemoryStore(memoryStore, id, now)
  /\ UNCHANGED <<extVars, pipeVars, now, ticks, upd, ret, lastSaved, firstExpiry, applied>>

(***************************************************************************)
(* lib/memory.ts driven by its callers: saveMemory, getMemory, the two     *)
(* halves of updateMemory around its await, clock advances and the sweep.  *)
(* A datum is a base value with the update functions applied to it so far. *)
(***************************************************************************)
MaxTicks == 2
MaxOps == 2
Updaters == {"f", "g"}
\* the key the cache's callers of SpecCache use
CallerKeys == {"assessment-1"}
TickSteps == {1, MsPerSecond}
Ttls == {Undefined, Num(0), Num(1)}
FreshData == {[t |-> "data", base |-> b, ops |-> <<>>] : b \in {"d1", "d2"}}

NoRet == [op |-> "none"]
IdleUpdate == [pc |-> "idle"]

\* updateFn(currentData) for the update function named u
applyUpdate(u, data) == [data EXCEPT !.ops = Append(@, u)]

Range(seq) == {seq[i] : i \in DOMAIN seq}

\* a caller's saveMemory(key, data, ttl)
SaveMemory(key, data, ttl) ==
  /\ pc = "idle"
  /\ memoryStore' = saveMemory(memoryStore, key, data, ttl, now)
  /\ lastSaved' = [lastSaved EXCEPT ![key] =
                     [data |-> data,
                      expiry |-> IF ttl \in {Undefined, Num(0)} THEN Null
                                 ELSE Num(now + ttl.v * MsPerSecond)]]
  /\ firstExpiry' = [firstExpiry EXCEPT ![key] =
                       IF ttl \in {Undefined, Num(0)} THEN Null
                       ELSE Num(now + ttl.v * MsPerSecond)]
  /\ applied' = [applied EXCEPT ![key] = {}]
  /\ ret' = NoRet
  /\ UNCHANGED <<extVars, pipeVars, proposal, now, ticks, upd>>

\* a caller's getMemory(key)
GetMemory(key) ==
  /\ pc = "idle"
  /\ ret' = [op |-> "getMemory", key |-> key, value |-> getMemory(memoryStore, key, now)]
  /\ memoryStore' = getMemoryStore(memoryStore, key, now)
  /\ UNCHANGED <<extVars, pipeVars, proposal, now, ticks, upd, lastSaved, firstExpiry, applied>>

\* updateMemory(key, u) up to its first await: getMemory has run
UpdateRead(u, key) ==
  /\ pc = "idle"
  /\ upd[u].pc = "idle"
  /\ getMemory(memoryStore, key, now) # Null =>
       Len(getMemory(memoryStore, key, now).ops) < MaxOps
  /\ upd' = [upd EXCEPT ![u] = [pc |-> "read", key |-> key,
                                currentData |-> getMemory(memoryStore, key, now)]]
  /\ ret' = [op |-> "getMemory", key |-> key, value |-> getMemory(memoryStore, key, now)]
  /\ memoryStore' = getMemoryStore(memoryStore, key, now)
  /\ UNCHANGED <<extVars, pipeVars, proposal, now, ticks, lastSaved, firstExpiry, applied>>

\* updateMemory after the await: updateFn, then saveMemory without a ttl
UpdateWrite(u) ==
  /\ pc = "idle"
  /\ upd[u].pc = "read"
  /\ upd' = [upd EXCEPT ![u] = IdleUpdate]
  /\ ret' = NoRet
  /\ IF upd[u].currentData # Null
     THEN LET updatedData == applyUpdate(u, upd[u].currentData) IN
          /\ memoryStore' = saveMemory(memoryStore, upd[u].key, updatedData, Undefined, now)
          /\ lastSaved' = [lastSaved EXCEPT ![upd[u].key] =
                             [data |-> updatedData, expiry |-> Null]]
          /\ applied' = [applied EXCEPT ![upd[u].key] = @ \cup {u}]
     ELSE UNCHANGED <<memoryStore, lastSaved, applied>>
  /\ UNCHANGED <<extVars, pipeVars, proposal, now, ticks, firstExpiry>>

\* the clock advances
Tick(d) ==
  /\ pc = "idle"
  /\ ticks < MaxTicks
  /\ now' = now + d
  /\ ticks' = ticks + 1
  /\ ret' = NoRet
  /\ UNCHANGED <<extVars, pipeVars, proposal, memoryStore, upd, lastSaved, firstExpiry, applied>>

\* the setInterval callback runs (ret notes that the last operation was a sweep)
Sweep ==
  /\ pc = "idle"
  /\ memoryStore' = sweep(memoryStore, now)
  /\ ret' = [op |-> "sweep"]
  /\ UNCHANGED <<extVars, pipeVars, proposal, now, ticks, upd, lastSaved, firstExpiry, applied>>

(***************************************************************************)
(* Specifications                                                          *)
(***************************************************************************)
InitCacheVars ==
  /\ memoryStore = [k \in Keys |-> Absent]
  /\ now = 0
  /\ ticks = 0
  /\ upd = [u \in Updaters |-> IdleUpdate]
  /\ ret = NoRet
  /\ lastSaved = [k \in Keys |-> Absent]
  /\ firstExpiry = [k \in Keys |-> Null]
  /\ applied = [k \in Keys |-> {}]

InitPipeVars ==
  /\ attempts = 0
  /\ melissa = Null
  /\ geo = Null
  /\ primary = Null
  /\ secondary = Null
  /\ solar = Null
  /\ vision = Null
  /\ result = Null
  /\ error = ""
  /\ calls = <<>>
  /\ responses = NoResponses
  /\ proposal = NoProposal

\* the parts of the state a specification does not exercise stay as they are
NotRun == [t |-> "not_run"]
IdleTwice ==
  /\ resolver = "none"
  /\ runs = <<>>
IdleSeasonal ==
  /\ seasonAnnual = 0
  /\ seasonLatitude = 0
  /\ monthlySeries = NotRun
IdleNormalize ==
  /\ rawData = Null
  /\ normalized = NotRun
IdleUnwrap ==
  /\ text = <<>>
  /\ unwrapped = NotRun
IdleService ==
  /\ svcPc = "idle"
  /\ svcAddress = ""
  /\ geocoded = Null
  /\ svcCalls = <<>>
  /\ svcResponse = Null
  /\ svcUi = Null
  /\ svcReplies = <<>>
IdleAgent ==
  /\ convClient = Undefined
  /\ agentLog = <<>>
IdleExtract ==
  /\ prose = <<>>
  /\ extracted = NotRun
IdlePipeline ==
  /\ pc = "idle"
  /\ googleKey = FALSE
  /\ nrelKey = FALSE
  /\ InitPipeVars
  /\ InitCacheVars

\* one assessment request, then proposal requests
Init ==
  /\ pc = "start"
  /\ address \in Addresses
  /\ googleKey \in BOOLEAN
  /\ nrelKey \in BOOLEAN
  /\ InitPipeVars
  /\ InitCacheVars
  /\ IdleTwice /\ IdleSeasonal /\ IdleNormalize /\ IdleUnwrap /\ IdleService /\ IdleAgent /\ IdleExtract

Next ==
  \/ HandlerStart
  \/ \E resp \in MelissaResponses : MelissaFetch(resp)
  \/ \E resp \in OsmResponses : OsmGeocode(resp)
  \/ UtilityRates
  \/ \E resp \in GoogleResponses \cup {NoKey} : SolarInsights(resp)
  \/ \E resp \in NrelResponses \cup {NoKey} : PvWatts(resp)
  \/ \E resp \in VisionResponses : RoofVision(resp)
  \/ Incentives
  \/ Derive
  \/ \E id \in AssessmentIds : SolarProposal(id)

Spec == Init /\ [][Next]_vars

\* every awaited Melissa fetch settles (it is given a timeout) and the
\* one-second pause of the retry loop ends
SpecMelissa == Spec /\ WF_vars(\E resp \in MelissaResponses : MelissaFetch(resp))

\* the cache used by arbitrary callers
InitCache ==
  /\ pc = "idle"
  /\ address = ""
  /\ googleKey = FALSE
  /\ nrelKey = FALSE
  /\ InitPipeVars
  /\ InitCacheVars
  /\ IdleTwice /\ IdleSeasonal /\ IdleNormalize /\ IdleUnwrap /\ IdleService /\ IdleAgent /\ IdleExtract

NextCache ==
  \/ \E k \in CallerKeys, d \in FreshData, ttl \in Ttls : SaveMemory(k, d, ttl)
  \/ \E k \in CallerKeys : GetMemory(k)
  \/ \E u \in Updaters, k \in CallerKeys : UpdateRead(u, k)
  \/ \E u \in Updaters : UpdateWrite(u)
  \/ \E d \in TickSteps : Tick(d)
  \/ Sweep

SpecCache == InitCache /\ [][NextCache]_vars

(***************************************************************************)
(* geocode and getSolar as functions of their input and of the providers'  *)
(* answers, called repeatedly for the same address                         *)
(***************************************************************************)
Thrown == [t |-> "throw"]

\* melissaValidation: its value when every fetch attempt ended as m did
melissaValidation(m) ==
  IF m.kind = "throw" THEN UnverifiedMelissa ELSE melissaParse(m)

\* geocode: the branch taken (1 Melissa's coordinates, 2 Melissa-verified
\* address with OpenStreetMap's coordinates, 3 OpenStreetMap only) and the
\* value it settles with
geocode(addr, m, osm, elev) ==
  LET mr == melissaValidation(m) IN
  IF mr.verified /\ mr.coordinates # Null
  THEN [via |-> 1, out |-> geoFromMelissa(mr, addr, elev)]
  ELSE [via |-> IF mr.verified THEN 2 ELSE 3,
        out |-> IF osmFound(osm) THEN geoFromOsm(mr, osm, elev) ELSE Thrown]

\* getSolar: the source used (1 Google Solar, 2 NREL PVWatts, 3 the offline
\* estimate) and the value it resolves with
getSolar(g, google, nrel) ==
  LET prim == solarInsights(g, google) IN
  IF prim # Null
  THEN [via |-> 1, out |-> enrichSolarData(prim, g)]
  ELSE [via |-> IF pvWattsEstimates(nrel) THEN 3 ELSE 2,
        out |-> enrichSolarData(pvWatts(g, nrel), g)]

\* GeoOut values handed to getSolar
GeoInputs ==
  { [lat |-> Num(l), std |-> "123 Main Street, SF", melissaVerified |-> v,
     confidence |-> IF v THEN ConfMelissaOsm ELSE ConfOsmOnly, elevation |-> e]
    : l \in {35, 45}, v \in BOOLEAN, e \in {100} }

\* the providers' answers to the calls of getSolar: one of each kind that
\* solarInsights and pvWatts tell apart
GoogleAnswers ==
  {NoKey, [kind |-> "not_ok"], [kind |-> "json", solarPotential |-> Undefined]}
  \cup { [kind |-> "json", solarPotential |-> p] : p \in SolarPotentials }
NrelAnswers ==
  {NoKey, [kind |-> "throw"], [kind |-> "json", outputs |-> Undefined],
   [kind |-> "json", outputs |-> [ac_annual |-> Num(7200)]]}

\* number of calls a behaviour makes
MaxRuns == 2

\* one call of geocode for the address
Geocode(m, osm, elev) ==
  /\ resolver = "geocode"
  /\ Len(runs) < MaxRuns
  /\ runs' = Append(runs, [input |-> [addr |-> address, melissa |-> m, osm |-> osm]]
                          @@ geocode(address, m, osm, elev))
  /\ UNCHANGED <<resolver, pipeVars, proposal, cacheVars,
                 seasonVars, normVars, unwrapVars, svcVars, agentVars, extractVars>>

\* one call of getSolar for the address
GetSolar(g, google, nrel) ==
  /\ resolver = "getSolar"
  /\ Len(runs) < MaxRuns
  /\ runs' = Append(runs, [input |-> [geo |-> g, google |-> google, nrel |-> nrel]]
                          @@ getSolar(g, google, nrel))
  /\ UNCHANGED <<resolver, pipeVars, proposal, cacheVars,
                 seasonVars, normVars, unwrapVars, svcVars, agentVars, extractVars>>

InitResolve ==
  /\ IdlePipeline
  /\ address = "123 Main St, San Francisco, CA"
  /\ resolver \in {"geocode", "getSolar"}
  /\ runs = <<>>
  /\ IdleSeasonal /\ IdleNormalize /\ IdleUnwrap /\ IdleService /\ IdleAgent /\ IdleExtract

NextResolve ==
  \/ \E m \in MelissaResponses, osm \in OsmResponses, elev \in Elevations :
       Geocode(m, osm, elev)
  \/ \E g \in GeoInputs, google \in GoogleAnswers, nrel \in NrelAnswers :
       GetSolar(g, google, nrel)

SpecResolve == InitResolve /\ [][NextResolve]_vars

(***************************************************************************)
(* solar-service/src/index.ts: normalization of the object parsed from     *)
(* Gemini's reply (numbers of these payloads are in tenths: 6.5 is 65)     *)
(***************************************************************************)
JStr(s) == [t |-> "str", s |-> s]
JBool(b) == [t |-> "bool", b |-> b]
JArr(a) == [t |-> "arr", a |-> a]
JObj == [t |-> "obj"]

\* Number(s) for a string s
StringToNumber(s) ==
  CASE s = "" -> Num(0)
    [] s = "85" -> Num(850)
    [] OTHER -> NaN

\* Number(v)
JsNumber(v) ==
  CASE v.t = "num" -> v
    [] v.t = "null" -> Num(0)
    [] v.t = "bool" -> Num(IF v.b THEN 10 ELSE 0)
    [] v.t = "str" -> StringToNumber(v.s)
    [] v.t = "arr" ->
         IF Len(v.a) = 0 THEN Num(0)
         ELSE IF Len(v.a) > 1 THEN NaN
         ELSE CASE v.a[1].t = "num" -> v.a[1]
                [] v.a[1].t \in {"null", "undefined"} -> Num(0)
                [] v.a[1].t = "str" -> StringToNumber(v.a[1].s)
                [] OTHER -> NaN
    [] OTHER -> NaN

\* String(v): a string stays as it is, the string made from another value
\* is kept as the value it shows
JsString(v) == IF v.t = "str" THEN v ELSE [t |-> "str", shows |-> v]

\* Boolean(v)
JsBoolean(v) ==
  JBool(~(\/ v.t \in {"null", "undefined", "NaN"}
          \/ v = JBool(FALSE)
          \/ v = Num(0)
          \/ v = JStr("")))

\* mutant of extractValue: an array is not unwrapped
extractValueNoArray(value, defaultValue) ==
  IF value # Undefined THEN value ELSE defaultValue

extractValue(value, defaultValue) ==
  IF value.t = "arr"
  THEN IF Len(value.a) > 0 THEN value.a[1] ELSE defaultValue
  ELSE IF value # Undefined THEN value ELSE defaultValue

AnalysisFields ==
  {"roofArea", "suitabilityScore", "sunExposure", "shadingFactor", "roofType", "roofSlope"}
RecommendationFields ==
  {"recommendedSystemSize", "panelType", "panelCount", "panelWattage", "panelEfficiency",
   "annualProduction", "installationType", "includeBattery", "batteryCapacity"}

\* analyzePropertyWithGemini: analysisData
analysisData(raw) ==
  [roofArea |-> JsNumber(extractValue(raw.roofArea, Num(18000))),
   suitabilityScore |-> JsNumber(extractValue(raw.suitabilityScore, Num(750))),
   sunExposure |-> JsNumber(extractValue(raw.sunExposure, Num(65))),
   shadingFactor |-> JsNumber(extractValue(raw.shadingFactor, Num(150))),
   roofType |-> JsString(extractValue(raw.roofType, JStr("Composite Shingle"))),
   roofSlope |-> JsNumber(extractValue(raw.roofSlope, Num(220)))]

\* getSystemRecommendationWithGemini: recommendationData
recommendationData(raw, batteryStorage) ==
  [recommendedSystemSize |-> JsNumber(extractValue(raw.recommendedSystemSize, Num(75))),
   panelType |-> JsString(extractValue(raw.panelType, JStr("Standard Monocrystalline"))),
   panelCount |-> JsNumber(extractValue(raw.panelCount, Num(200))),
   panelWattage |-> JsNumber(extractValue(raw.panelWattage, Num(4000))),
   panelEfficiency |-> JsNumber(extractValue(raw.panelEfficiency, Num(200))),
   annualProduction |-> JsNumber(extractValue(raw.annualProduction, Num(90000))),
   installationType |-> JsString(extractValue(raw.installationType, JStr("Fixed Roof Mount"))),
   includeBattery |-> JsBoolean(extractValue(raw.includeBattery, JBool(batteryStorage))),
   batteryCapacity |-> IF batteryStorage
                       THEN JsNumber(extractValue(raw.batteryCapacity, Num(135)))
                       ELSE Undefined]

\* values a field of the parsed reply may hold; Undefined is a missing field
RawValues ==
  {Undefined, Null, Num(850), JStr("abc"), JStr("85"), JStr("Metal"), JBool(TRUE), JObj,
   JArr(<<>>), JArr(<<Num(50), Num(70)>>), JArr(<<Num(850)>>), JArr(<<JStr("abc")>>),
   JArr(<<JStr("Metal")>>), JArr(<<Null>>), JArr(<<JBool(FALSE)>>),
   JArr(<<JArr(<<Num(50)>>)>>)}

\* replies in which at most two fields are present
Payloads(fields) ==
  { [f \in fields |-> IF f = f1 THEN v1 ELSE IF f = f2 THEN v2 ELSE Undefined]
    : f1 \in fields, f2 \in fields, v1 \in RawValues, v2 \in RawValues }

\* analyzePropertyWithGemini from JSON.parse on
NormalizeAnalysis ==
  /\ normalized = NotRun
  /\ DOMAIN rawData = AnalysisFields
  /\ normalized' = [of |-> "analysis", batteryStorage |-> FALSE,
                    data |-> analysisData(rawData)]
  /\ UNCHANGED <<rawData, pipeVars, proposal, cacheVars,
                 twiceVars, seasonVars, unwrapVars, svcVars, agentVars, extractVars>>

\* getSystemRecommendationWithGemini from JSON.parse on
NormalizeRecommendation(batteryStorage) ==
  /\ normalized = NotRun
  /\ DOMAIN rawData = RecommendationFields
  /\ normalized' = [of |-> "recommendation", batteryStorage |-> batteryStorage,
                    data |-> recommendationData(rawData, batteryStorage)]
  /\ UNCHANGED <<rawData, pipeVars, proposal, cacheVars,
                 twiceVars, seasonVars, unwrapVars, svcVars, agentVars, extractVars>>

InitNormalize ==
  /\ IdlePipeline
  /\ address = ""
  /\ rawData \in Payloads(AnalysisFields) \cup Payloads(RecommendationFields)
  /\ normalized = NotRun
  /\ IdleTwice /\ IdleSeasonal /\ IdleUnwrap /\ IdleService /\ IdleAgent /\ IdleExtract

NextNormalize ==
  \/ NormalizeAnalysis
  \/ \E b \in BOOLEAN : NormalizeRecommendation(b)

SpecNormalize == InitNormalize /\ [][NextNormalize]_vars

(***************************************************************************)
(* Extraction of the JSON object from the text of the model's reply        *)
(* (solar-flair/lib/gemini.ts, app/api/assessment/route.ts and             *)
(* solar-service/src/index.ts).  A text is a sequence of tokens: "w" a     *)
(* stretch of prose, "m" the text of members inside an object, "{" and "}" *)
(* the braces, "F" a line holding a code fence.                            *)
(***************************************************************************)
MaxTextLen == 5
Tokens == {"w", "m", "{", "}", "F"}
Texts == UNION {[1..n -> Tokens] : n \in 0..MaxTextLen}

NoMatch == [t |-> "no_match"]
Positions(s, c) == {i \in DOMAIN s : s[i] = c}
SetMin(S) == CHOOSE x \in S : \A y \in S : x <= y
SetMax(S) == CHOOSE x \in S : \A y \in S : x >= y

\* number of "{" minus number of "}" among s[a..b]
Depth(s, a, b) ==
  Cardinality({i \in a..b : s[i] = "{"}) - Cardinality({i \in a..b : s[i] = "}"})

\* JSON.parse accepts s: one object, braces balanced, only members and
\* objects inside, an inner object preceded by its key
IsJson(s) ==
  /\ Len(s) >= 2
  /\ s[1] = "{"
  /\ \A i \in DOMAIN s : s[i] \in {"{", "}", "m"}
  /\ \A i \in 2..Len(s) : s[i] = "{" => s[i - 1] = "m"
  /\ \A k \in 1..(Len(s) - 1) : Depth(s, 1, k) >= 1
  /\ Depth(s, 1, Len(s)) = 0

\* JSON.parse(s): the object, or the SyntaxError it throws
JsonParse(s) == IF IsJson(s) THEN [ok |-> TRUE, json |-> s] ELSE [ok |-> FALSE]

\* text.match(/```json\n([\s\S]*?)\n```/) || text.match(/```\n([\s\S]*?)\n```/):
\* the leftmost fence that has a later fence with text in between, up to
\* the nearest such fence (the quantifier is lazy)
fenceMatch(s) ==
  LET fences == Positions(s, "F")
      opens == {i \in fences : \E j \in fences : j > i + 1}
  IN IF opens = {} THEN NoMatch
     ELSE LET i == SetMin(opens)
              j == SetMin({k \in fences : k > i + 1})
          IN [t |-> "match", group |-> SubSeq(s, i + 1, j - 1)]

\* text.match(/{[\s\S]*}/): from the first "{" to the last "}" (greedy)
braceMatch(s) ==
  LET opens == Positions(s, "{")
      closes == Positions(s, "}")
  IN IF opens = {} \/ closes = {} \/ SetMax(closes) < SetMin(opens) THEN NoMatch
     ELSE [t |-> "match", whole |-> SubSeq(s, SetMin(opens), SetMax(closes))]

\* gemini.ts and route.ts: jsonMatch[1] || jsonMatch[0], else the whole text
parseReply(s) ==
  IF fenceMatch(s) # NoMatch THEN JsonParse(fenceMatch(s).group)
  ELSE IF braceMatch(s) # NoMatch THEN JsonParse(braceMatch(s).whole)
  ELSE JsonParse(s)

\* index.ts: only the brace pattern, and no match is an error
parseServiceReply(s) ==
  IF braceMatch(s) # NoMatch THEN JsonParse(braceMatch(s).whole)
  ELSE [ok |-> FALSE]

\* analyzeSolarPotential / POST from response.text() on
ParseReply ==
  /\ unwrapped = NotRun
  /\ unwrapped' = [by |-> "parseReply", out |-> parseReply(text)]
  /\ UNCHANGED <<text, pipeVars, proposal, cacheVars,
                 twiceVars, seasonVars, normVars, svcVars, agentVars, extractVars>>

\* analyzePropertyWithGemini from responseText on
ParseServiceReply ==
  /\ unwrapped = NotRun
  /\ unwrapped' = [by |-> "parseServiceReply", out |-> parseServiceReply(text)]
  /\ UNCHANGED <<text, pipeVars, proposal, cacheVars,
                 twiceVars, seasonVars, normVars, svcVars, agentVars, extractVars>>

InitUnwrap ==
  /\ IdlePipeline
  /\ address = ""
  /\ text \in Texts
  /\ unwrapped = NotRun
  /\ IdleTwice /\ IdleSeasonal /\ IdleNormalize /\ IdleService /\ IdleAgent /\ IdleExtract

NextUnwrap ==
  \/ ParseReply
  \/ ParseServiceReply

SpecUnwrap == InitUnwrap /\ [][NextUnwrap]_vars

(***************************************************************************)
(* The seasonal-distribution model of monthly production: lib/solar.ts     *)
(* calculateMonthlyProduction and the visualization tool of                *)
(* solar-service/src/index.ts (whole kWh, products taken exactly)          *)
(***************************************************************************)
northernDistribution == <<4, 5, 8, 10, 12, 13, 14, 12, 9, 7, 4, 2>>
middleDistribution == <<5, 6, 8, 10, 11, 12, 12, 11, 9, 8, 5, 3>>
southernDistribution == <<7, 7, 9, 10, 10, 10, 10, 10, 9, 8, 6, 4>>

\* the factors 0.06, 0.07, ... of monthlyProductionData, in percent
visualizationDistribution == <<6, 7, 8, 9, 11, 12, 12, 11, 9, 7, 5, 3>>

\* Math.round(num / den) for num >= 0 and den > 0: halves round up
MathRound(num, den) == (2 * num + den) \div (2 * den)

calculateMonthlyProduction(annualKwh, lat) ==
  LET distribution == IF lat > 40 THEN northernDistribution
                      ELSE IF lat > 30 THEN middleDistribution
                      ELSE southernDistribution
  IN [i \in 1..12 |-> MathRound(annualKwh * distribution[i], 100)]

\* generateVisualizationConfig.handler: the production column of
\* monthlyProductionData
monthlyProductionData(annual) ==
  [i \in 1..12 |-> MathRound(annual * visualizationDistribution[i], 100)]

\* annual figures a provider or a caller may give, in kWh
AnnualInputs == {50 * k : k \in 1..20} \cup {7200, 9000, 12500}
Latitudes == {25, 35, 45}

\* solarInsights, or pvWatts without ac_monthly, filling in the series
MonthlyFromAnnual ==
  /\ monthlySeries = NotRun
  /\ monthlySeries' = [by |-> "calculateMonthlyProduction", annual |-> seasonAnnual,
                       series |-> calculateMonthlyProduction(seasonAnnual, seasonLatitude)]
  /\ UNCHANGED <<seasonAnnual, seasonLatitude, pipeVars, proposal, cacheVars,
                 twiceVars, normVars, unwrapVars, svcVars, agentVars, extractVars>>

\* createEstimatedSolarData: the annual figure comes from the latitude
MonthlyFromEstimate ==
  /\ monthlySeries = NotRun
  /\ LET annualKwh == createEstimatedSolarData([lat |-> Num(seasonLatitude)]).annualKwh.v
     IN monthlySeries' = [by |-> "createEstimatedSolarData", annual |-> annualKwh,
                          series |-> calculateMonthlyProduction(annualKwh, seasonLatitude)]
  /\ UNCHANGED <<seasonAnnual, seasonLatitude, pipeVars, proposal, cacheVars,
                 twiceVars, normVars, unwrapVars, svcVars, agentVars, extractVars>>

\* the visualization tool with annualProduction = seasonAnnual
MonthlyForVisualization ==
  /\ monthlySeries = NotRun
  /\ monthlySeries' = [by |-> "generateVisualization", annual |-> seasonAnnual,
                       series |-> monthlyProductionData(seasonAnnual)]
  /\ UNCHANGED <<seasonAnnual, seasonLatitude, pipeVars, proposal, cacheVars,
                 twiceVars, normVars, unwrapVars, svcVars, agentVars, extractVars>>

InitSeasonal ==
  /\ IdlePipeline
  /\ address = ""
  /\ seasonAnnual \in AnnualInputs
  /\ seasonLatitude \in Latitudes
  /\ monthlySeries = NotRun
  /\ IdleTwice /\ IdleNormalize /\ IdleUnwrap /\ IdleService /\ IdleAgent /\ IdleExtract

NextSeasonal ==
  \/ MonthlyFromAnnual
  \/ MonthlyFromEstimate
  \/ MonthlyForVisualization

SpecSeasonal == InitSeasonal /\ [][NextSeasonal]_vars

(***************************************************************************)
(* solar-service/src/index.ts: the analyze-property tool, one step per     *)
(* awaited request (coordinates in 1/10000 degree, the other numbers in    *)
(* tenths)                                                                 *)
(***************************************************************************)
ServiceAddresses == Addresses \cup {"1 Main St, Anchorage, AK"}
GoogleMapsResponses ==
  { [kind |-> "throw"],
    [kind |-> "json", status |-> "ZERO_RESULTS", results |-> <<>>],
    [kind |-> "json", status |-> "OK", results |-> <<>>],
    [kind |-> "json", status |-> "OK",
     results |-> <<[formatted_address |-> "123 Main St, San Francisco, CA 94105, USA",
                    lat |-> 377749, lng |-> -1224194]>>],
    [kind |-> "json", status |-> "OK",
     results |-> <<[formatted_address |-> "1 Main St, Anchorage, AK 99501, USA",
                    lat |-> 612181, lng |-> -1499003]>>] }
MapboxResponses ==
  { [kind |-> "throw"],
    [kind |-> "json", features |-> <<>>],
    [kind |-> "json",
     features |-> <<[place_name |-> "123 Main Street, San Francisco, California, US",
                     center |-> <<-1224194, 377749>>]>>] }
NoFields == [f \in AnalysisFields |-> Undefined]
GeminiResponses ==
  { [kind |-> "throw"], [kind |-> "no_text"] }
  \cup { [kind |-> "text", text |-> t, data |-> d]
         : t \in { <<"{", "m", "}">>, <<"w", "{", "m", "}", "w">>,
                   <<"{", "m", "}", "w", "}">>, <<"w">> },
           d \in { NoFields,
                   [NoFields EXCEPT !.suitabilityScore = JArr(<<Num(850)>>)],
                   [NoFields EXCEPT !.roofArea = Null] } }
PvWattsV6Responses ==
  { [kind |-> "throw"],
    [kind |-> "json", outputs |-> Undefined],
    [kind |-> "json",
     inputs |-> [system_capacity |-> 4, losses |-> 14, tilt |-> 20],
     outputs |-> [ac_annual |-> 6000, solrad_annual |-> 5]] }

\* geocodeAddress: the value its catch block returns
geocodingFailed(addr) ==
  [address |-> [text |-> addr, suffix |-> " (Geocoding Failed)"],
   latitude |-> 398283, longitude |-> -985795]

\* geocodeAddress: the value built from Google's first result
fromGoogleMaps(resp) ==
  [address |-> [text |-> resp.results[1].formatted_address, suffix |-> ""],
   latitude |-> resp.results[1].lat, longitude |-> resp.results[1].lng]

\* geocodeAddress: the value built from Mapbox's first feature, whose center
\* is [longitude, latitude]
fromMapbox(resp) ==
  [address |-> [text |-> resp.features[1].place_name, suffix |-> ""],
   latitude |-> resp.features[1].center[2], longitude |-> resp.features[1].center[1]]

\* calculateOptimalTilt: Math.round(latitude * 0.76), in degrees
calculateOptimalTilt(lat) == MathRound(lat * 76, 1000000)

\* analyzePropertyWithGemini: did the Gemini half produce an analysis
geminiAnalysed(resp) == resp.kind = "text" /\ parseServiceReply(resp.text).ok

\* analyzePropertyWithGemini: the value returned from Gemini's reply
geminiRoofAnalysis(raw) ==
  LET d == analysisData(raw) IN
  [d EXCEPT !.sunExposure = IF IsNumber(d.sunExposure)
                            THEN Num(MathRound(d.sunExposure.v * 10, 24)) ELSE NaN]

\* analyzePropertyWithGemini: did the NREL half produce an analysis
nrelAnalysed(resp) == resp.kind = "json" /\ resp.outputs # Undefined

\* analyzePropertyWithGemini: the value built from NREL's answer
nrelRoofAnalysis(resp) ==
  [roofArea |-> Num(10 * resp.inputs.system_capacity * 450),
   suitabilityScore |->
     Num(10 * Min2(Max2(MathRound(resp.outputs.ac_annual * 80 + 60000, 6000), 30), 95)),
   sunExposure |-> Num(Min2(Max2((resp.outputs.solrad_annual * 100) \div 365, 50), 95)),
   shadingFactor |-> Num(10 * MathRound(resp.inputs.losses, 2)),
   roofType |-> JStr("Composite Shingle"),
   roofSlope |-> Num(10 * resp.inputs.tilt)]

\* handler, catch block: the simulated analysis
simulatedRoofAnalysis ==
  [roofArea |-> Num(18000), suitabilityScore |-> Num(750), sunExposure |-> Num(85),
   shadingFactor |-> Num(150), roofType |-> JStr("Composite Shingle"),
   roofSlope |-> Num(220)]

\* handler, catch block: the location it answers with
fallbackGeocodeResult(addr) ==
  [address |-> [text |-> addr, suffix |-> " (Geocoding Failed)"],
   latitude |-> 398283, longitude |-> -985795]

\* handler, try block: the card has no alert and the text ends without a note
propertyCard == [alert |-> "", note |-> ""]

\* handler, catch block: the card opens with a warning alert and the text ends
\* with a note
errorCard ==
  [alert |-> "Note: Using Simulated Data", note |-> "Note: This is simulated data."]

\* mutant of analysisResult: the tilt angle is left out of the response
analysisResultNoTilt(geocodeResult, roofAnalysis) ==
  [address |-> geocodeResult.address,
   latitude |-> geocodeResult.latitude,
   longitude |-> geocodeResult.longitude,
   roofArea |-> roofAnalysis.roofArea,
   suitabilityScore |-> roofAnalysis.suitabilityScore,
   sunExposure |-> roofAnalysis.sunExposure,
   shadingFactor |-> roofAnalysis.shadingFactor,
   roofType |-> roofAnalysis.roofType,
   roofSlope |-> roofAnalysis.roofSlope]

\* handler: analysisResult
analysisResult(geocodeResult, roofAnalysis) ==
  [address |-> geocodeResult.address,
   latitude |-> geocodeResult.latitude,
   longitude |-> geocodeResult.longitude,
   roofArea |-> roofAnalysis.roofArea,
   suitabilityScore |-> roofAnalysis.suitabilityScore,
   sunExposure |-> roofAnalysis.sunExposure,
   shadingFactor |-> roofAnalysis.shadingFactor,
   roofType |-> roofAnalysis.roofType,
   roofSlope |-> roofAnalysis.roofSlope,
   optimalTiltAngle |-> calculateOptimalTilt(geocodeResult.latitude)]

\* handler -> geocodeAddress: the Google Maps request and what follows it
GoogleMapsGeocode(resp) ==
  /\ svcPc = "start"
  /\ svcCalls' = Append(svcCalls, "fetch:google-maps")
  /\ svcReplies' = Append(svcReplies, resp)
  /\ IF resp.kind = "json" /\ resp.status = "OK"
     THEN /\ geocoded' = IF Len(resp.results) > 0 THEN fromGoogleMaps(resp)
                         ELSE geocodingFailed(svcAddress)
          /\ svcPc' = "gemini"
     ELSE IF resp.kind = "throw"
     THEN /\ geocoded' = geocodingFailed(svcAddress)
          /\ svcPc' = "gemini"
     ELSE /\ geocoded' = geocoded
          /\ svcPc' = "mapbox"
  /\ UNCHANGED <<svcAddress, svcResponse, svcUi>>
  /\ UNCHANGED <<agentVars, extractVars, pipeVars, proposal, cacheVars, twiceVars, seasonVars, normVars, unwrapVars>>

\* geocodeAddress: the Mapbox request and what follows it
MapboxGeocode(resp) ==
  /\ svcPc = "mapbox"
  /\ svcCalls' = Append(svcCalls, "fetch:mapbox")
  /\ svcReplies' = Append(svcReplies, resp)
  /\ geocoded' = IF resp.kind = "json" /\ Len(resp.features) > 0
                 THEN fromMapbox(resp) ELSE geocodingFailed(svcAddress)
  /\ svcPc' = "gemini"
  /\ UNCHANGED <<svcAddress, svcResponse, svcUi>>
  /\ UNCHANGED <<agentVars, extractVars, pipeVars, proposal, cacheVars, twiceVars, seasonVars, normVars, unwrapVars>>

\* handler -> analyzePropertyWithGemini: the Gemini request; the handler
\* answers when an analysis was extracted, and asks NREL otherwise
GeminiAnalysis(resp) ==
  /\ svcPc = "gemini"
  /\ svcCalls' = Append(svcCalls, "fetch:gemini")
  /\ svcReplies' = Append(svcReplies, resp)
  /\ IF geminiAnalysed(resp)
     THEN /\ svcResponse' = analysisResult(geocoded, geminiRoofAnalysis(resp.data))
          /\ svcUi' = propertyCard
          /\ svcPc' = "done"
     ELSE /\ svcResponse' = svcResponse
          /\ svcUi' = svcUi
          /\ svcPc' = "nrel"
  /\ UNCHANGED <<svcAddress, geocoded>>
  /\ UNCHANGED <<agentVars, extractVars, pipeVars, proposal, cacheVars, twiceVars, seasonVars, normVars, unwrapVars>>

\* analyzePropertyWithGemini, catch block: the NREL request; when it fails too
\* the error reaches the handler's catch block
NrelAnalysis(resp) ==
  /\ svcPc = "nrel"
  /\ svcCalls' = Append(svcCalls, "fetch:nrel")
  /\ svcReplies' = Append(svcReplies, resp)
  /\ svcResponse' = IF nrelAnalysed(resp)
                    THEN analysisResult(geocoded, nrelRoofAnalysis(resp))
                    ELSE analysisResult(fallbackGeocodeResult(svcAddress),
                                        simulatedRoofAnalysis)
  /\ svcUi' = IF nrelAnalysed(resp) THEN propertyCard ELSE errorCard
  /\ svcPc' = "done"
  /\ UNCHANGED <<svcAddress, geocoded>>
  /\ UNCHANGED <<agentVars, extractVars, pipeVars, proposal, cacheVars, twiceVars, seasonVars, normVars, unwrapVars>>

InitService ==
  /\ IdlePipeline
  /\ address = ""
  /\ IdleTwice /\ IdleSeasonal /\ IdleNormalize /\ IdleUnwrap /\ IdleAgent /\ IdleExtract
  /\ svcPc = "start"
  /\ svcAddress \in ServiceAddresses
  /\ geocoded = Null
  /\ svcCalls = <<>>
  /\ svcResponse = Null
  /\ svcUi = Null
  /\ svcReplies = <<>>

NextService ==
  \/ \E resp \in GoogleMapsResponses : GoogleMapsGeocode(resp)
  \/ \E resp \in MapboxResponses : MapboxGeocode(resp)
  \/ \E resp \in GeminiResponses : GeminiAnalysis(resp)
  \/ \E resp \in PvWattsV6Responses : NrelAnalysis(resp)

SpecService == InitService /\ [][NextService]_vars

(***************************************************************************)
(* main/solar_analysis_service.js and main/agent_handler.js: the           *)
(* conversation over POST /api/dain/request                                *)
(***************************************************************************)
MaxRequests == 3

\* a message with what String.includes and extractAddress's pattern find in
\* it: "analyze", one of the street words ("st" is part of "cost" and
\* "best"), one of the follow-up words, and the text after "for"
Messages ==
  { [text |-> "analyze solar potential for 123 Main St, Anytown, CA",
     analyze |-> TRUE, street |-> TRUE, followUp |-> FALSE,
     address |-> JStr("123 Main St, Anytown, CA")],
    [text |-> "analyze my street",
     analyze |-> TRUE, street |-> TRUE, followUp |-> FALSE, address |-> Null],
    [text |-> "How much will it cost?",
     analyze |-> FALSE, street |-> TRUE, followUp |-> TRUE, address |-> Null],
    [text |-> "What panel material is best for me?",
     analyze |-> FALSE, street |-> TRUE, followUp |-> TRUE, address |-> JStr("me")],
    [text |-> "hello",
     analyze |-> FALSE, street |-> FALSE, followUp |-> FALSE, address |-> Null] }

\* analyzeSolarPotential resolves with one of these
AnalysisOutcomes ==
  { [status |-> "success",
     data |-> [recommendations |-> [panelMaterial |-> "Monocrystalline"]]],
    [status |-> "success",
     data |-> [recommendations |-> [panelMaterial |-> "Thin-film"]]],
    [status |-> "error", data |-> Undefined] }

\* the object literal {}
EmptyState == [solarResults |-> Undefined]

\* what a client may send as conversationState with its first request
ClientStates ==
  { Undefined, EmptyState,
    [solarResults |-> [recommendations |-> [panelMaterial |-> "Monocrystalline"]]] }

\* obj.f for a property the object may lack
Property(obj, f) == IF f \in DOMAIN obj THEN obj[f] ELSE Undefined

isAddressInput(message) == message.analyze /\ message.street

extractAddress(message) == message.address

isFollowUpQuestion(message, context) ==
  context.solarResults # Undefined /\ message.followUp

\* processAddressInput: the context after it and the object it returns
processAddressInput(message, context, outcome) ==
  IF extractAddress(message) = Null
  THEN [context |-> context,
        returned |-> [response |-> "no_address", suggestions |-> 2]]
  ELSE IF outcome.status = "success"
  THEN [context |-> [context EXCEPT !.solarResults = outcome.data],
        returned |-> [response |-> "analysis", suggestions |-> 4, attachments |-> 1]]
  ELSE [context |-> [context EXCEPT !.solarResults = Undefined],
        returned |-> [response |-> "error", suggestions |-> 2]]

\* handleUserRequest: the context after it and the object it returns
handleUserRequest(message, context, outcome) ==
  IF isAddressInput(message)
  THEN processAddressInput(message, context, outcome)
  ELSE IF isFollowUpQuestion(message, context)
  THEN [context |-> context,
        returned |-> [response |-> "follow_up", suggestions |-> 3]]
  ELSE [context |-> context,
        returned |-> [response |-> "guidance", suggestions |-> 3]]

\* POST /api/dain/request: the route runs the handler on the state the client
\* sent (or {}) and answers; the client keeps the conversationState of the
\* answer for its next request
DainRequest(message, outcome) ==
  /\ Len(agentLog) < MaxRequests
  /\ LET context == IF convClient = Undefined THEN EmptyState ELSE convClient
         handled == handleUserRequest(message, context, outcome)
         body == [response |-> Property(handled.returned, "response"),
                  suggestions |-> Property(handled.returned, "suggestions"),
                  attachments |-> Property(handled.returned, "attachments"),
                  conversationState |-> Property(handled.returned, "conversationState")]
     IN /\ agentLog' = Append(agentLog, [message |-> message.text,
                                         context |-> handled.context,
                                         body |-> body])
        /\ convClient' = body.conversationState
  /\ UNCHANGED <<extractVars, pipeVars, proposal, cacheVars,
                 twiceVars, seasonVars, normVars, unwrapVars, svcVars>>

InitAgent ==
  /\ IdlePipeline
  /\ address = ""
  /\ IdleTwice /\ IdleSeasonal /\ IdleNormalize /\ IdleUnwrap /\ IdleService
  /\ IdleExtract
  /\ convClient \in ClientStates
  /\ agentLog = <<>>

NextAgent == \E message \in Messages, outcome \in AnalysisOutcomes : DainRequest(message, outcome)

SpecAgent == InitAgent /\ [][NextAgent]_vars

(***************************************************************************)
(* Values read out of the prose of a Gemini reply: the extractors local to *)
(* analyzeSolarPotential's module, and the tiered ones of the utility      *)
(* module.  A reply is a sequence of words; "." ends a sentence.           *)
(***************************************************************************)
MaxProseLen == 3
ProseTokens ==
  { "w", ".", "monocrystalline", "thin-film", "recommend", "south-facing",
    "southwest", "tilt", "25°", "10°", "40 degrees", "$12,000",
    "12000 dollars", "8%", "return" }
Proses == UNION { [1..n -> ProseTokens] : n \in 0..MaxProseLen }

\* response.includes(word), for a word no other token contains
includes(p, word) == \E i \in 1..Len(p) : p[i] = word

\* some sentence of the reply holds the matched text and one of the words
sentenceWith(p, matched, words) ==
  \E i, j \in 1..Len(p) :
    /\ p[i] = matched
    /\ p[j] \in words
    /\ \A k \in Min2(i, j)..Max2(i, j) : p[k] # "."

\* the leftmost match of a pattern whose matches are the tokens of `found`
firstMatch(p, found) == p[SetMin({i \in 1..Len(p) : p[i] \in found})]

\* parseInt / parseFloat of the digits a match captured
captured(token) ==
  CASE token = "25°" -> Num(25)
    [] token = "10°" -> Num(10)
    [] token = "40 degrees" -> Num(40)
    [] token = "$12,000" -> Num(12000)
    [] token = "12000 dollars" -> Num(12000)
    [] token = "8%" -> Num(8)

\* the extractors of analyzeSolarPotential's module, as getGeminiAnalysis
\* calls them
getGeminiAnalysis(p) ==
  [recommendedMaterial |->
     IF includes(p, "monocrystalline") THEN JStr("Monocrystalline")
     ELSE IF includes(p, "thin-film") THEN JStr("Thin-film")
     ELSE JStr("Monocrystalline"),
   optimalOrientation |->
     IF includes(p, "south-facing") THEN JStr("South")
     ELSE IF includes(p, "southwest") THEN JStr("Southwest")
     ELSE JStr("South"),
   optimalTiltAngle |->
     IF \E i \in 1..Len(p) : p[i] \in {"25°", "10°"}
     THEN captured(firstMatch(p, {"25°", "10°"})) ELSE Num(30),
   installationCostEstimate |->
     IF includes(p, "$12,000") THEN captured("$12,000") ELSE Num(15000),
   roiEstimate |->
     IF includes(p, "8%") THEN captured("8%") ELSE Num(10),
   specialConsiderations |-> JStr("Consider seasonal adjustments"),
   fullAnalysis |-> p]

\* generateRecommendations, with the figures calculateSolarPotential gave
generateRecommendations(geminiAnalysis, solarPotential) ==
  [panelMaterial |-> geminiAnalysis.recommendedMaterial,
   orientation |-> geminiAnalysis.optimalOrientation,
   tiltAngle |-> geminiAnalysis.optimalTiltAngle,
   systemSize |-> solarPotential.systemSizeKw,
   panelCount |-> solarPotential.panelCount,
   installationCost |-> geminiAnalysis.installationCostEstimate,
   annualProduction |-> solarPotential.annualProduction,
   roi |-> geminiAnalysis.roiEstimate,
   specialConsiderations |-> geminiAnalysis.specialConsiderations]

SolarPotentialFigures ==
  [systemSizeKw |-> Num(6), panelCount |-> Num(20), annualProduction |-> Num(9000)]

\* utility module, extractMaterialRecommendation: a keyword always lies in
\* some sentence, so a keyword found gives the high tier
tieredMaterial(p) ==
  LET found == IF includes(p, "monocrystalline") THEN JStr("Monocrystalline")
               ELSE IF includes(p, "thin-film") THEN JStr("Thin-film")
               ELSE Null
  IN IF found # Null THEN [material |-> found, confidence |-> "high"]
     ELSE IF includes(p, "recommend") /\ found # Null
     THEN [material |-> found, confidence |-> "medium"]
     ELSE [material |-> JStr("Monocrystalline"), confidence |-> "low"]

\* utility module, extractOrientationRecommendation: 'south' is looked for
\* first and is part of "southwest"; "facing" is part of "south-facing"
tieredOrientation(p) ==
  LET south == includes(p, "south-facing") \/ includes(p, "southwest") IN
  IF south /\ includes(p, "south-facing")
  THEN [orientation |-> JStr("South"), confidence |-> "high"]
  ELSE IF south THEN [orientation |-> JStr("South"), confidence |-> "medium"]
  ELSE [orientation |-> JStr("South"), confidence |-> "low"]

\* utility module, extractTiltRecommendation
tieredTilt(p) ==
  LET angles == {"25°", "10°", "40 degrees"}
      inContext == {t \in angles : sentenceWith(p, t, {"tilt"})}
  IN IF \E i \in 1..Len(p) : p[i] \in inContext
     THEN [angle |-> captured(firstMatch(p, inContext)), confidence |-> "high"]
     ELSE IF \E i \in 1..Len(p) : p[i] \in angles
     THEN [angle |-> captured(firstMatch(p, angles)), confidence |-> "medium"]
     ELSE [angle |-> Num(30), confidence |-> "low"]

\* utility module, extractCostEstimate: its first pattern starts with an
\* unescaped $ (end of input) and matches nothing; the second one needs
\* "dollars" or "usd"
tieredCost(p) ==
  IF includes(p, "12000 dollars")
  THEN [cost |-> captured("12000 dollars"), confidence |-> "medium"]
  ELSE [cost |-> Num(15000), confidence |-> "low"]

\* utility module, extractROIEstimate
tieredRoi(p) ==
  IF sentenceWith(p, "8%", {"return"})
  THEN [roi |-> captured("8%"), confidence |-> "high"]
  ELSE IF includes(p, "8%") THEN [roi |-> captured("8%"), confidence |-> "medium"]
  ELSE [roi |-> Num(10), confidence |-> "low"]

\* utility module, extractAllRecommendations; the considerations are sentences
\* of the reply or three stock sentences, and their tier is always medium
extractAllRecommendations(p) ==
  [panelMaterial |-> tieredMaterial(p),
   orientation |-> tieredOrientation(p),
   tiltAngle |-> tieredTilt(p),
   costEstimate |-> tieredCost(p),
   roi |-> tieredRoi(p),
   specialConsiderations |->
     [considerations |-> IF includes(p, "recommend") THEN "sentences" ELSE "stock",
      confidence |-> "medium"]]

\* analyzeSolarPotential, steps 5 and 6: from Gemini's reply to the
\* recommendations of the returned record
AnalyzeSolarPotential ==
  /\ extracted = NotRun
  /\ extracted' = [by |-> "analyzeSolarPotential",
                   out |-> generateRecommendations(getGeminiAnalysis(prose),
                                                   SolarPotentialFigures)]
  /\ UNCHANGED <<prose, agentVars, pipeVars, proposal, cacheVars,
                 twiceVars, seasonVars, normVars, unwrapVars, svcVars>>

\* a caller of the utility module
ExtractAllRecommendations ==
  /\ extracted = NotRun
  /\ extracted' = [by |-> "extractAllRecommendations",
                   out |-> extractAllRecommendations(prose)]
  /\ UNCHANGED <<prose, agentVars, pipeVars, proposal, cacheVars,
                 twiceVars, seasonVars, normVars, unwrapVars, svcVars>>

InitExtract ==
  /\ IdlePipeline
  /\ address = ""
  /\ IdleTwice /\ IdleSeasonal /\ IdleNormalize /\ IdleUnwrap /\ IdleService
  /\ IdleAgent
  /\ prose \in Proses
  /\ extracted = NotRun

NextExtract ==
  \/ AnalyzeSolarPotential
  \/ ExtractAllRecommendations

SpecExtract == InitExtract /\ [][NextExtract]_vars

(***************************************************************************)
(* tools/solarAssessment.ts, solarProposal.handler called with the id of   *)
(* an assessment some caller cached (amounts in cents)                     *)
(***************************************************************************)
Customizations == [includeBatteryStorage : BOOLEAN, includeFinancing : BOOLEAN]

\* records of the shape solarAssessment.handler returns
CachedAssessments ==
  { LET g == [std |-> "123 MAIN ST", lat |-> Num(37), melissaVerified |-> TRUE]
        vis == [usableAreaM2 |-> 50, shadePct |-> 10]
        util == getUtilityRates(g)
        fin == calculateFinancials(sol.panelCapacityKw, sol.annualKwh, util.rate,
                                   getIncentives(g.std, sol.panelCapacityKw).totalValue)
    IN assessmentRecord(g, sol, vis, fin, util)
    : sol \in { [annualKwh |-> Num(7000), panelCapacityKw |-> Num(5), roofTiltDeg |-> Num(28)],
                [annualKwh |-> Num(9000), panelCapacityKw |-> Num(6), roofTiltDeg |-> Num(28)] } }

\* handler, steps 3 and 4: the financials of the proposal, computed on a copy
\* of assessmentData.financials; toFixed yields strings
proposalFinancials(assessmentData, customizations) ==
  LET cached == assessmentData.financials
      battery == customizations.includeBatteryStorage
      systemCost == IF battery THEN Num(cached.systemCost.v + 1000000) ELSE cached.systemCost
      netCost == IF battery THEN Num(cached.netCost.v + 750000) ELSE cached.netCost
  IN [totalCost |-> systemCost,
      netCost |-> netCost,
      monthlyPayment |-> IF customizations.includeFinancing
                         THEN [t |-> "str", fixed2 |-> MathRound(netCost.v, 240)]
                         ELSE Undefined,
      paybackPeriod |-> IF battery
                        THEN [t |-> "str", fixed1 |-> tenths(netCost.v, cached.annualSavings.v)]
                        ELSE cached.paybackYears,
      lifetimeSavings |-> JsTimes(cached.annualSavings, 25)]

\* mutant of storeAfterProposal: the battery surcharge is added to
\* assessmentData.financials itself, which is the cached object
storeAfterProposalAliased(store, id, t, customizations) ==
  IF getMemory(store, id, t) # Null /\ customizations.includeBatteryStorage
  THEN [store EXCEPT
          ![id].data.financials.systemCost = Num(@.v + 1000000),
          ![id].data.financials.netCost = Num(@.v + 750000)]
  ELSE getMemoryStore(store, id, t)

\* handler: the store it leaves; getMemory may delete an expired entry, and
\* the spread copy keeps the adjustments away from the cached object
storeAfterProposal(store, id, t, customizations) == getMemoryStore(store, id, t)

\* solarProposal.handler({assessmentId, customizations})
ProposalRequest(id, customizations) ==
  /\ pc = "idle"
  /\ proposal' =
       IF getMemory(memoryStore, id, now) = Null
       THEN [outcome |-> "Assessment data not found", assessmentId |-> id]
       ELSE [outcome |-> "ok", assessmentId |-> id,
             customizations |-> customizations,
             assessmentData |-> getMemory(memoryStore, id, now),
             financials |-> proposalFinancials(getMemory(memoryStore, id, now),
                                               customizations)]
  /\ memoryStore' = storeAfterProposal(memoryStore, id, now, customizations)
  /\ UNCHANGED <<extVars, pipeVars, now, ticks, upd, ret, lastSaved, firstExpiry, applied>>

NextProposal ==
  \/ \E k \in CallerKeys, d \in CachedAssessments, ttl \in Ttls : SaveMemory(k, d, ttl)
  \/ \E id \in AssessmentIds, c \in Customizations : ProposalRequest(id, c)
  \/ \E d \in TickSteps : Tick(d)
  \/ Sweep

SpecProposal == InitCache /\ [][NextProposal]_vars

(***************************************************************************)
(* Claims                                                                  *)
(***************************************************************************)
SolarProviderCalls == {"solarInsights", "pvWatts", "createEstimatedSolarData"}
isSolarProviderCall(c) == c \in SolarProviderCalls
ProviderOrder == <<"solarInsights", "pvWatts", "createEstimatedSolarData">>
nrelFailed(resp) == resp.kind # "json" \/ resp.outputs = Undefined

\* C1: within one getSolar resolution the providers are consulted in the
\* order solarInsights, pvWatts, createEstimatedSolarData, each at most
\* once; pvWatts is called only after solarInsights resolved with null; the
\* estimate is built only after the NREL attempt failed or had no key; and
\* when solarInsights returns data, that data (enriched) is the result and
\* pvWatts is never called.
C1_ProviderOrder ==
  LET sc == SelectSeq(calls, isSolarProviderCall) IN
  /\ sc = SubSeq(ProviderOrder, 1, Len(sc))
  /\ "pvWatts" \in Range(calls) => responses.google # Null /\ primary = Null
  /\ "createEstimatedSolarData" \in Range(calls) =>
       /\ "pvWatts" \in Range(calls)
       /\ responses.nrel # Null
       /\ nrelFailed(responses.nrel)
       /\ responses.nrel.kind = "no_key" <=> ~nrelKey
  /\ primary # Null =>
       /\ "pvWatts" \notin Range(calls)
       /\ secondary = Null
       /\ solar = enrichSolarData(primary, geo)

\* C1 witness: all three providers were consulted, NREL having a key and failing
C1_Witness ==
  /\ pc = "roof"
  /\ nrelKey
  /\ SelectSeq(calls, isSolarProviderCall) = ProviderOrder
  /\ solar.confidence \in {ConfEstimated, ConfEstimated + VerifiedBonus}

\* C2: getSolar always returns an estimate whose annualKwh is a defined
\* number, and a malformed provider payload is treated as that provider
\* being unavailable (the next provider's answer is the result).
C2_AnnualKwhDefined ==
  solar # Null =>
    /\ IsNumber(solar.annualKwh)
    /\ (responses.nrel # Null /\ responses.nrel.kind = "json"
          /\ responses.nrel.outputs # Undefined
          /\ ~IsNumber(responses.nrel.outputs.ac_annual))
       => solar = enrichSolarData(createEstimatedSolarData(geo), geo)

\* C3: when every geocoding provider fails for a non-empty address, the
\* geocode resolver does not raise but yields a Location, and the handler
\* does not fail with 'Unable to validate address'.
C3_GeocodeNeverRaises ==
  (/\ address # ""
   /\ melissa # Null
   /\ ~melissa.verified
   /\ responses.osm # Null
   /\ ~osmFound(responses.osm))
  => (geo # Null /\ pc # "failed" /\ error # "Unable to validate address")

HasField(r, f) == f \in DOMAIN r

\* the provider confidence a solar estimate had before enrichSolarData
sourceConfidence == IF primary # Null THEN primary.confidence ELSE secondary.confidence

\* C4: the record returned by solarAssessment.handler carries an overall
\* confidence equal to the minimum of the stage confidences, and the solar
\* confidence after enrichSolarData is not higher than that of its weakest
\* contributing source.
C4_OverallConfidenceIsMin ==
  pc = "done" =>
    /\ HasField(result, "overallConfidence")
    /\ result.overallConfidence = Min2(geo.confidence, solar.confidence)
    /\ solar.confidence <= Min2(geo.confidence, sourceConfidence)

\* C5: getMemory(key) returns the data most recently saved under key when
\* that entry has no expiry or the current time is not past its expiry, and
\* null otherwise; it never returns the data of an entry whose expiry has
\* passed, swept or not.
C5_GetMemoryLive ==
  ret.op = "getMemory" =>
    LET last == lastSaved[ret.key]
        live == last # Absent /\ (last.expiry = Null \/ now <= last.expiry.v)
    IN IF live THEN ret.value = last.data ELSE ret.value = Null

\* C5 witness: getMemory answered null for an entry that expired and that no
\* sweep had removed before the call
C5_Witness ==
  /\ ret.op = "getMemory"
  /\ ret.value = Null
  /\ lastSaved[ret.key] # Absent
  /\ lastSaved[ret.key].expiry # Null
  /\ now > lastSaved[ret.key].expiry.v

\* C6: no updateMemory is lost: the value stored under a key reflects every
\* update function written to it since the last saveMemory by a caller.
C6_NoLostUpdate ==
  \A k \in Keys :
    memoryStore[k] # Absent => applied[k] \subseteq Range(memoryStore[k].data.ops)

\* C7: the record of a completed assessment is stored in the cache under an
\* assessment id, and a proposal request carrying an assessmentId made right
\* after does not fail with 'Assessment data not found'.
C7_RecordCached ==
  pc = "done" =>
    /\ \E id \in Keys : memoryStore[id] # Absent /\ memoryStore[id].data = result
    /\ proposal.outcome # "Assessment data not found"

\* C8: after saveMemory(k, d, ttl) and any number of updateMemory(k, f),
\* getMemory(k) returns null once the ttl fixed by that saveMemory has elapsed.
C8_ExpiryKeptAcrossUpdates ==
  (/\ ret.op = "getMemory"
   /\ firstExpiry[ret.key] # Null
   /\ now > firstExpiry[ret.key].v)
  => ret.value = Null

\* C9: when roofVision fails (image unreadable, model call failed, reply not
\* JSON) the handler is not aborted and continues with a roof analysis.
C9_RoofFailureTolerated ==
  (responses.vision # Null /\ ~roofVisionOk(responses.vision))
  => (pc # "failed" /\ vision # Null)

newCalls == SubSeq(calls', Len(calls) + 1, Len(calls'))
SolarRoofCalls ==
  {"solarInsights", "pvWatts", "createEstimatedSolarData", "roofVision",
   "fetch:google-solar", "fetch:nrel", "fetch:gemini"}
LaterStageCalls ==
  SolarRoofCalls \cup {"getUtilityRates", "getIncentives", "calculateFinancials"}

\* C10: no solar or roof call is issued before geocode returned a Location,
\* the financial derivation runs only once the solar and roof results are
\* there, and once geocoding has raised no later stage is invoked.
C10_StageOrder ==
  [][/\ Range(newCalls) \cap SolarRoofCalls # {} => geo # Null
     /\ "calculateFinancials" \in Range(newCalls) => solar # Null /\ vision # Null
     /\ error = "Unable to validate address" =>
          Range(newCalls) \cap LaterStageCalls = {}]_vars

\* C10 witness: a request that went through every stage
C10_Witness ==
  /\ pc = "done"
  /\ LaterStageCalls \ {"createEstimatedSolarData", "pvWatts", "fetch:nrel"}
       \subseteq Range(calls)

ProviderRequests ==
  {"fetch:melissa", "fetch:nominatim", "fetch:google-solar", "fetch:nrel", "fetch:gemini"}

\* C11: a request whose address is the empty string is rejected with an
\* invalid-request error before any provider request is issued: the handler
\* issues no network request for it and never resolves with a record.
C11_EmptyAddressRejected ==
  address = "" =>
    /\ Range(calls) \cap ProviderRequests = {}
    /\ result = Null

Count(seq, c) == Cardinality({i \in DOMAIN seq : seq[i] = c})

\* C12: within one geocode resolution no provider is requested more than
\* once: the Melissa request is issued at most once, a failed one is followed
\* by OpenStreetMap and not by another Melissa request.
C12_NoProviderRetry ==
  /\ Count(calls, "fetch:melissa") <= 1
  /\ Count(calls, "fetch:nominatim") <= 1

\* the first provider of the chain gave nothing in run r
firstProviderDown(r) ==
  IF resolver = "geocode"
  THEN melissaValidation(r.input.melissa) = UnverifiedMelissa
  ELSE solarInsights(r.input.geo, r.input.google) = Null

\* C13: two calls with the same input, the first provider unavailable both
\* times and the second provider giving the same answer both times, settle
\* with identical output; for geocode (Melissa down, OpenStreetMap the
\* same) and for getSolar (Google Solar down, NREL the same).
C13_Idempotent ==
  \A i, j \in DOMAIN runs :
    (runs[i].input = runs[j].input /\ firstProviderDown(runs[i]))
    => runs[i].out = runs[j].out

\* C14: the confidence attached to a result never increases along the
\* fallback chain: of two results, the one obtained earlier in the chain
\* (geocode: Melissa's coordinates, Melissa-verified with OpenStreetMap,
\* OpenStreetMap only; getSolar: Google Solar, NREL, offline estimate) has a
\* confidence at least as high as the other.
C14_ConfidenceNonIncreasing ==
  \A i, j \in DOMAIN runs :
    (runs[i].via < runs[j].via /\ runs[i].out # Thrown /\ runs[j].out # Thrown)
    => runs[i].out.confidence >= runs[j].out.confidence

\* C14 witness: two results of the same function obtained at different
\* places of the chain
C14_Witness ==
  /\ Len(runs) = 2
  /\ runs[1].via = 2 /\ runs[2].via = 3
  /\ runs[1].out # Thrown /\ runs[2].out # Thrown

\* C15: every estimate getSolar returns once both providers are exhausted
\* carries the same confidence, whatever the location and whether or not the
\* address was verified, and that confidence lies in [0.5, 0.7].
C15_EstimateConfidenceFixed ==
  resolver = "getSolar" =>
    \A i, j \in DOMAIN runs :
      (runs[i].via = 3 /\ runs[j].via = 3)
      => /\ runs[i].out.confidence = runs[j].out.confidence
         /\ runs[i].out.confidence >= 50
         /\ runs[i].out.confidence <= 70

StringFields == {"roofType", "panelType", "installationType"}
DeclaredType(f) ==
  IF f \in StringFields THEN "str" ELSE IF f = "includeBattery" THEN "bool" ELSE "num"

\* the per-field defaults (tenths)
DocumentedDefault(f) ==
  CASE f = "roofArea" -> Num(18000)
    [] f = "suitabilityScore" -> Num(750)
    [] f = "sunExposure" -> Num(65)
    [] f = "shadingFactor" -> Num(150)
    [] f = "roofType" -> JStr("Composite Shingle")
    [] f = "roofSlope" -> Num(220)
    [] f = "recommendedSystemSize" -> Num(75)
    [] f = "panelType" -> JStr("Standard Monocrystalline")
    [] f = "panelCount" -> Num(200)
    [] f = "panelWattage" -> Num(4000)
    [] f = "panelEfficiency" -> Num(200)
    [] f = "annualProduction" -> Num(90000)
    [] f = "installationType" -> JStr("Fixed Roof Mount")
    [] f = "batteryCapacity" -> Num(135)

\* C16: for every field of the property-analysis and system-recommendation
\* payloads, a non-empty array whose first element has the field's type is
\* normalized to that first element, a missing field to the field's default
\* (includeBattery to the request's batteryStorage; batteryCapacity is only
\* produced when battery storage was asked for), and the normalized value is
\* never an array.
C16_ArrayFirstAndDefault ==
  normalized # NotRun =>
    \A f \in DOMAIN rawData :
      LET raw == rawData[f]
          out == normalized.data[f]
          produced == (f = "batteryCapacity" => normalized.batteryStorage)
      IN /\ out.t # "arr"
         /\ (produced /\ raw.t = "arr" /\ Len(raw.a) > 0 /\ raw.a[1].t = DeclaredType(f))
            => out = raw.a[1]
         /\ (produced /\ raw = Undefined /\ f # "includeBattery")
            => out = DocumentedDefault(f)
         /\ (raw = Undefined /\ f = "includeBattery")
            => out = JBool(normalized.batteryStorage)

\* C16 witness: suitabilityScore [85] normalized to 85 next to a missing
\* roofArea normalized to 1800
C16_Witness ==
  /\ normalized # NotRun
  /\ normalized.of = "analysis"
  /\ rawData.suitabilityScore = JArr(<<Num(850)>>)
  /\ rawData.roofArea = Undefined
  /\ normalized.data.suitabilityScore = Num(850)
  /\ normalized.data.roofArea = Num(18000)

\* a value of the wrong primitive type for a numeric field
wrongForNumber(raw) ==
  \/ raw.t \in {"null", "obj"}
  \/ raw.t = "str" /\ StringToNumber(raw.s) = NaN
  \/ raw.t = "arr" /\ Len(raw.a) > 0 /\ raw.a[1].t # "num"

\* C17: a numeric field of the property analysis that is present with the
\* wrong primitive type (null, a non-numeric string, an object, an array
\* whose first element is not a number) is normalized to the field's
\* default; so the normalized field is never NaN and never a 0 made from null.
C17_WrongTypeGivesDefault ==
  (normalized # NotRun /\ normalized.of = "analysis") =>
    \A f \in AnalysisFields \ StringFields :
      wrongForNumber(rawData[f]) =>
        /\ normalized.data[f] = DocumentedDefault(f)
        /\ normalized.data[f] # NaN

\* the first balanced {...} span of a text: from its first "{" up to the
\* brace closing it
FirstBalancedSpan(s) ==
  LET opens == Positions(s, "{")
      a == SetMin(opens)
      ends == {b \in DOMAIN s : b > a /\ Depth(s, a, b) = 0}
  IN IF opens = {} THEN NoMatch
     ELSE IF ends = {} THEN NoMatch
     ELSE [t |-> "match", whole |-> SubSeq(s, a, SetMin(ends))]

\* C18: unwrapping parses the contents of a fenced code block when one is
\* present and otherwise the first balanced {...} span of the text, and it
\* fails only when neither is valid JSON; so prose, one valid object and
\* trailing prose holding a further "}" still yields that object.
C18_UnwrapYieldsObject ==
  unwrapped # NotRun =>
    LET fence == fenceMatch(text)
        span == FirstBalancedSpan(text)
        fenceGood == fence # NoMatch /\ IsJson(fence.group)
        spanGood == span # NoMatch /\ IsJson(span.whole)
    IN /\ fenceGood => unwrapped.out = [ok |-> TRUE, json |-> fence.group]
       /\ (fence = NoMatch /\ spanGood) => unwrapped.out = [ok |-> TRUE, json |-> span.whole]
       /\ (fenceGood \/ spanGood) => unwrapped.out.ok

RECURSIVE SumSeq(_)
SumSeq(s) == IF s = <<>> THEN 0 ELSE Head(s) + SumSeq(Tail(s))

\* C19: the twelve monthly values the seasonal-distribution model fills in
\* (calculateMonthlyProduction in each latitude band, and the monthly
\* percentages of the visualization tool), rounded per month, sum to the
\* annual production within plus or minus 1%.
C19_MonthlySumWithinOnePercent ==
  monthlySeries # NotRun =>
    100 * Abs(SumSeq(monthlySeries.series) - monthlySeries.annual) <= monthlySeries.annual

\* C20: once geocodeAddress has returned a Location, the address, latitude
\* and longitude of the final analyze-property response are the ones it
\* returned, whatever the roof-analysis stage did.
C20_LocationImmutable ==
  svcPc = "done" =>
    /\ svcResponse.address = geocoded.address
    /\ svcResponse.latitude = geocoded.latitude
    /\ svcResponse.longitude = geocoded.longitude

\* the request was logged in svcCalls
serviceAsked(c) == \E i \in 1..Len(svcCalls) : svcCalls[i] = c

\* geocodeAddress returned the continental-US default
geocodeDefaulted == geocoded # Null /\ geocoded.address.suffix = " (Geocoding Failed)"

\* C21: geocodeAddress returns the continental-US default location only
\* after Mapbox has been tried: a Google Maps failure of either kind (non-OK
\* status or failed request) is followed by the Mapbox request.
C21_MapboxTriedBeforeDefault ==
  geocodeDefaulted => serviceAsked("fetch:mapbox")

\* the roof values of the response did not come from Gemini, or its location
\* is the default one
notFromPrimary == serviceAsked("fetch:nrel") \/ geocodeDefaulted

\* the response tells its reader that it is approximate: a warning alert, a
\* note in the text, or (read generously) the failure label in the address
\* that the title and the text repeat
noteShown ==
  \/ svcUi.alert # ""
  \/ svcUi.note # ""
  \/ svcResponse.address.suffix # ""

\* C22: an analyze-property response whose data did not come from the
\* primary providers carries a note or an alert saying it is approximate or
\* simulated.
C22_FallbackIsFlagged ==
  (svcPc = "done" /\ notFromPrimary) => noteShown

\* C23: after a request that analysed an address, the conversation state
\* handed back to the client holds solarResults, so that the client's next
\* request can be answered as a follow-up question.
C23_StateHandedBack ==
  \A i \in 1..Len(agentLog) :
    agentLog[i].body.response = "analysis" =>
      /\ agentLog[i].body.conversationState # Undefined
      /\ agentLog[i].body.conversationState.solarResults # Undefined

\* the primary geocoder answered this request with a verified address and
\* coordinates
primaryGeocoderAnswered ==
  melissa # Null /\ melissa.verified /\ melissa.coordinates # Null

\* C24: every result of geocode and of getSolar carries the identity of the
\* provider that produced it, and when the primary geocoder answered, the
\* location is tagged with it, is verified and has confidence 0.9 or more.
C24_ResultsCarryProvider ==
  /\ geo # Null => HasField(geo, "sourceProvider")
  /\ solar # Null => HasField(solar, "sourceProvider")
  /\ (geo # Null /\ primaryGeocoderAnswered) =>
       (geo.melissaVerified /\ geo.confidence >= ConfMelissaOsm)

ConfidenceTiers == {"high", "medium", "low"}
ProseFields == {"panelMaterial", "orientation", "tiltAngle", "installationCost", "roi"}

\* C25: every value read out of the prose (panel material, orientation,
\* tilt angle, cost, ROI) is in the recommendations that
\* analyzeSolarPotential returns together with its confidence tier.
C25_TierReturnedWithValue ==
  (extracted # NotRun /\ extracted.by = "analyzeSolarPotential") =>
    \A f \in ProseFields :
      /\ HasField(extracted.out[f], "confidence")
      /\ extracted.out[f].confidence \in ConfidenceTiers

\* C26: every confidence attached to a result of geocode or getSolar lies in
\* [0, 1] (in hundredths: 0..100), on every provider path and after
\* enrichSolarData has raised it for a verified address.
C26_ConfidenceInUnitInterval ==
  /\ geo # Null => geo.confidence \in 0..100
  /\ primary # Null => primary.confidence \in 0..100
  /\ secondary # Null => secondary.confidence \in 0..100
  /\ solar # Null => solar.confidence \in 0..100
  /\ \A i \in 1..Len(runs) :
       (runs[i].out # Thrown) => runs[i].out.confidence \in 0..100

\* a verified address whose Google Solar estimate was raised to the cap
C26_Witness ==
  /\ solar # Null /\ geo # Null
  /\ geo.melissaVerified
  /\ primary # Null
  /\ solar.confidence = 100

OutputFields ==
  { "address", "latitude", "longitude", "roofArea", "suitabilityScore",
    "sunExposure", "shadingFactor", "roofType", "roofSlope", "optimalTiltAngle" }

\* the reply to the i-th request was a failure of the Gemini step: request
\* error, unexpected shape, or no parsable JSON object in the text
geminiFailedAt(i) ==
  /\ svcCalls[i] = "fetch:gemini"
  /\ \/ svcReplies[i].kind \in {"throw", "no_text"}
     \/ braceMatch(svcReplies[i].text) = NoMatch
     \/ ~IsJson(braceMatch(svcReplies[i].text).whole)

\* the reply to the i-th request was a failure of the NREL step
nrelFailedAt(i) ==
  /\ svcCalls[i] = "fetch:nrel"
  /\ \/ svcReplies[i].kind = "throw"
     \/ svcReplies[i].outputs = Undefined

\* C27: analyze-property always answers with all ten output fields; NREL is
\* asked only after the Gemini step failed, and the simulated analysis of
\* the catch block is used only after Gemini and NREL both failed.
C27_ServiceAlwaysAnswers ==
  /\ svcPc = "done" => DOMAIN svcResponse = OutputFields
  /\ \A i \in 1..Len(svcCalls) :
       svcCalls[i] = "fetch:nrel" => (i > 1 /\ geminiFailedAt(i - 1))
  /\ (svcPc = "done" /\ svcUi = errorCard) =>
       /\ Len(svcCalls) >= 2
       /\ geminiFailedAt(Len(svcCalls) - 1)
       /\ nrelFailedAt(Len(svcCalls))
       /\ svcResponse.roofArea = Num(18000)
       /\ svcResponse.sunExposure = Num(85)

\* every provider failed and the request was still answered, with the
\* simulated analysis
C27_Witness ==
  /\ svcPc = "done"
  /\ svcUi = errorCard
  /\ svcCalls = <<"fetch:google-maps", "fetch:mapbox", "fetch:gemini", "fetch:nrel">>
  /\ geocodeDefaulted

\* every live or dead entry of the store holds what its caller last saved
cacheAsSaved ==
  \A k \in Keys : memoryStore[k] # Absent => memoryStore[k].data = lastSaved[k].data

\* the same proposal request made again, with nothing saved since the
\* record the earlier one read, yields the same financials
sameProposalAgain ==
  (/\ proposal.outcome = "ok" /\ proposal'.outcome = "ok"
   /\ proposal'.assessmentId = proposal.assessmentId
   /\ proposal'.customizations = proposal.customizations
   /\ proposal.assessmentData = lastSaved[proposal.assessmentId].data
   /\ lastSaved' = lastSaved)
  => proposal'.financials = proposal.financials

\* C28: generating a proposal from a cached assessment leaves the cached
\* record as it was saved, so the same request made again yields the same
\* totalCost and netCost instead of accumulating the battery surcharge.
C28_ProposalLeavesCacheAlone == [](cacheAsSaved) /\ [][sameProposalAgain]_vars

\* a proposal with battery storage was generated from a cached record that
\* is still in the store
C28_Witness ==
  /\ proposal.outcome = "ok"
  /\ proposal.customizations.includeBatteryStorage
  /\ memoryStore[proposal.assessmentId] # Absent
  /\ proposal.financials.netCost =
       Num(memoryStore[proposal.assessmentId].data.financials.netCost.v + 750000)

melissaFetches == Count(calls, "fetch:melissa")

\* at most three attempts, none after an attempt that did not throw, and the
\* unverified result after the third failure, with which geocode goes on to
\* OpenStreetMap instead of raising
melissaLoopBounded ==
  /\ melissaFetches <= MaxAttempts
  /\ (responses.melissa # Null /\ responses.melissa.kind # "throw") =>
       (pc # "melissa" /\ melissaFetches = attempts + 1)
  /\ (responses.melissa # Null /\ responses.melissa.kind = "throw") =>
       melissaFetches = attempts
  /\ attempts = MaxAttempts =>
       /\ melissa = UnverifiedMelissa
       /\ pc # "melissa"
       /\ Count(calls, "fetch:nominatim") = 1 \/ pc = "osm"

\* no step of the retry loop ends the request with an error
melissaNeverRaises == pc = "melissa" => (pc' # "failed" /\ error' = error)

\* C29: melissaValidation always terminates and never raises: at most 3
\* fetch attempts, none after the first that does not throw, and after a
\* third failure the unverified result, so that geocode goes on to
\* OpenStreetMap.
C29_MelissaTerminates ==
  /\ [](melissaLoopBounded)
  /\ [][melissaNeverRaises]_vars
  /\ (pc = "melissa") ~> (pc # "melissa")

\* three attempts failed and geocode is about to ask OpenStreetMap
C29_Witness ==
  /\ attempts = MaxAttempts
  /\ melissaFetches = 3
  /\ melissa = UnverifiedMelissa
  /\ pc = "osm"

\* the expiry the caller's last save of k asked for has passed
expiryPassed(k) ==
  /\ lastSaved[k] # Absent
  /\ lastSaved[k].expiry # Null
  /\ now > lastSaved[k].expiry.v

\* an entry saved without a time to live, or not yet past its expiry, is stored
keptUntilExpiry ==
  \A k \in Keys :
    (lastSaved[k] # Absent /\ ~expiryPassed(k)) =>
      /\ memoryStore[k] # Absent
      /\ memoryStore[k].data = lastSaved[k].data

\* a sweep deletes the entries whose expiry has passed and no other, and
\* getMemory answers after it as it would have answered before it
sweptExactly ==
  ret'.op = "sweep" =>
    \A k \in Keys :
      /\ memoryStore'[k] =
           IF memoryStore[k] # Absent /\ expiryPassed(k) THEN Absent ELSE memoryStore[k]
      /\ getMemory(memoryStore', k, now') = getMemory(memoryStore, k, now)

\* C30: the periodic sweep removes exactly the entries whose expiry has
\* passed (current time strictly greater than expiry, the test of getMemory):
\* never one saved without a TTL or with ttl 0, nor one not yet expired, so
\* a key getMemory would answer before a sweep is answered the same after it.
C30_SweepRemovesExactlyExpired ==
  [](keptUntilExpiry) /\ [][sweptExactly]_vars

\* a sweep has run one millisecond after an entry's expiry and the entry is gone
C30_Witness ==
  /\ ret.op = "sweep"
  /\ \E k \in CallerKeys :
       /\ expiryPassed(k)
       /\ memoryStore[k] = Absent
       /\ now = lastSaved[k].expiry.v + 1

====
